---- MODULE Spec2Model ----
(***************************************************************************)
(* A model of the RISC-V structured-instruction mutator: the instruction   *)
(* data model (instructions.rs), the parser and assembler (parser.rs,      *)
(* assembler.rs), the generator (generator.rs), the mutations (mutator.rs) *)
(* and the program input (program_input.rs).                               *)
(*                                                                         *)
(* A 32-bit word (u32 EncodedInstruction) is the set of its set bit        *)
(* positions, a subset of 0..31: | is \cup, & is \cap.  An operand value   *)
(* (u32) is such a set too, so that a value with bit 31 set is held as it  *)
(* is; Bits and Val go from a number below 2^31 to its set and back.       *)
(* A &'static reference to a template or an operand spec is the name of    *)
(* the table entry; references are compared through the entries they name. *)
(***************************************************************************)
EXTENDS Integers, Sequences, FiniteSets, TLC

\* ------------------------------------------------------------------ bounds

\* Longest program the model builds (growing mutations are cut off there).
MaxLen == 3
\* Number of mutate calls on one input.
MaxSteps == 2
\* Largest of the small values the Rands of the mutate calls return, and
\* the most values such a Rand returns before it starts again.
RandBound == 3
MaxDraws == 3
\* How many of the smallest and of the largest values of an operand field
\* the encoder round trip is checked on.
ValBound == 2
\* Longest program the parser round trip is checked on.
MaxParseLen == 2
\* Longest program a single mutation is applied to on its own.
MaxInputLen == 2
\* Longest byte buffer the parser is given on its own.
MaxBytes == 8
\* Largest index generate_name is passed, and how often it is called.
MaxIdx == 2
MaxCalls == 2
\* Most arguments forwarded to a generator.
MaxKnown == 2
\* Rounds of a retry loop that are counted.
MaxTries == 2
\* Calls of the reducing mutators on one input.
MaxReduce == 3
\* Calls of the calibration stage, and entries of its corpus.
MaxPerform == 3
MaxEntries == 2
\* Widest operand whose value draws are enumerated in full.
MaxDrawBits == 6

\* ------------------------------------------------------------- bit helpers

Min(a, b) == IF a < b THEN a ELSE b
Max(a, b) == IF a < b THEN b ELSE a

\* The set bits of a value below 2^width (width at most 31).
BitsOf(v, width) == {i \in 0..(width - 1) : (v \div (2 ^ i)) % 2 = 1}

\* The u32 of a number below 2^31: its set bits.
Bits(v) == BitsOf(v, 31)

RECURSIVE ValUpTo(_, _)
ValUpTo(bits, n) ==
    IF n < 0 THEN 0
    ELSE (IF n \in bits THEN 2 ^ n ELSE 0) + ValUpTo(bits, n - 1)

\* The value of a word whose bits all lie below bit `width` (at most 31).
Val(bits, width) == ValUpTo(bits, width - 1)

\* word << n on u32: bits shifted past bit 31 are lost.
Shl(bits, n) == {i + n : i \in {j \in bits : j + n <= 31}}

\* word >> n on u32.
Shr(bits, n) == {i - n : i \in {j \in bits : j >= n}}

\* a < b on u32: at the highest bit in which they differ, b has it set.
lt(a, b) == \E i \in b \ a : \A j \in (i + 1)..31 : j \in a <=> j \in b

\* ----------------------------------------------------- the opcode table
\*
\* instructions.rs includes raw_instructions.rs, which build.rs generates
\* from the RISC-V opcode database for the extensions rv_i, rv_m, rv_a,
\* rv_f, rv_d and their rv64 counterparts.  The table below holds templates
\* of each of these extensions with the database's field layout: every
\* operand count from none to five, every operand width from 1 to 20 bits,
\* and templates that share an opcode and differ in other fixed bits.

\* ArgumentSpec { name, length, offset }
ArgumentSpec_new(name, length, offset) ==
    [name |-> name, length |-> length, offset |-> offset]

\* riscv::args
riscv_args ==
    [RD |-> ArgumentSpec_new("rd", 5, 7),
     RS1 |-> ArgumentSpec_new("rs1", 5, 15),
     RS2 |-> ArgumentSpec_new("rs2", 5, 20),
     RS3 |-> ArgumentSpec_new("rs3", 5, 27),
     IMM12 |-> ArgumentSpec_new("imm12", 12, 20),
     IMM20 |-> ArgumentSpec_new("imm20", 20, 12),
     SHAMTD |-> ArgumentSpec_new("shamtd", 6, 20),
     RM |-> ArgumentSpec_new("rm", 3, 12),
     AQ |-> ArgumentSpec_new("aq", 1, 26),
     RL |-> ArgumentSpec_new("rl", 1, 25)]

\* The fixed bits of a template as the opcode database writes them: a set
\* of <<high bit, low bit, value>> fields.
MatchOf(fixed) == UNION {Shl(Bits(f[3]), f[2]) : f \in fixed}
MaskOf(fixed) == UNION {f[2]..f[1] : f \in fixed}

\* InstructionTemplate { name, match_pattern, mask_pattern, operand1..5 }:
\* the five optional operands are kept as the sequence of those present.
InstructionTemplate_new(name, fixed, ops) ==
    [name |-> name, match_pattern |-> MatchOf(fixed),
     mask_pattern |-> MaskOf(fixed), operands |-> ops]

Opcode(op) == {<<6, 2, op>>, <<1, 0, 3>>}

\* The per-extension INSTS arrays.
rv_i ==
    CHOOSE insts \in
        {<<InstructionTemplate_new("auipc", Opcode(5), <<args.RD, args.IMM20>>),
           InstructionTemplate_new("jalr", Opcode(25) \cup {<<14, 12, 0>>},
                                   <<args.RD, args.RS1, args.IMM12>>),
           InstructionTemplate_new("addi", Opcode(4) \cup {<<14, 12, 0>>},
                                   <<args.RD, args.RS1, args.IMM12>>),
           InstructionTemplate_new("ecall",
               Opcode(28) \cup {<<31, 20, 0>>, <<19, 15, 0>>, <<14, 12, 0>>,
                                <<11, 7, 0>>}, <<>>)>> :
            args \in {riscv_args}} : TRUE
rv_m ==
    CHOOSE insts \in
        {<<InstructionTemplate_new("mul",
               Opcode(12) \cup {<<31, 25, 1>>, <<14, 12, 0>>},
               <<args.RD, args.RS1, args.RS2>>)>> :
            args \in {riscv_args}} : TRUE
rv_a ==
    CHOOSE insts \in
        {<<InstructionTemplate_new("amoadd_w",
               Opcode(11) \cup {<<31, 29, 0>>, <<28, 27, 0>>, <<14, 12, 2>>},
               <<args.RD, args.RS1, args.RS2, args.AQ, args.RL>>)>> :
            args \in {riscv_args}} : TRUE
rv_f ==
    CHOOSE insts \in
        {<<InstructionTemplate_new("fadd_s",
               Opcode(20) \cup {<<31, 27, 0>>, <<26, 25, 0>>},
               <<args.RD, args.RS1, args.RS2, args.RM>>)>> :
            args \in {riscv_args}} : TRUE
rv_d ==
    CHOOSE insts \in
        {<<InstructionTemplate_new("fmadd_d", Opcode(16) \cup {<<26, 25, 1>>},
               <<args.RD, args.RS1, args.RS2, args.RS3, args.RM>>)>> :
            args \in {riscv_args}} : TRUE
rv64_i ==
    CHOOSE insts \in
        {<<InstructionTemplate_new("slli",
               Opcode(4) \cup {<<31, 26, 0>>, <<14, 12, 1>>},
               <<args.RD, args.RS1, args.SHAMTD>>)>> :
            args \in {riscv_args}} : TRUE
rv64_m ==
    CHOOSE insts \in
        {<<InstructionTemplate_new("mulw",
               Opcode(14) \cup {<<31, 25, 1>>, <<14, 12, 0>>},
               <<args.RD, args.RS1, args.RS2>>)>> :
            args \in {riscv_args}} : TRUE
rv64_a ==
    CHOOSE insts \in
        {<<InstructionTemplate_new("lr_d",
               Opcode(11) \cup {<<31, 29, 0>>, <<28, 27, 2>>, <<24, 20, 0>>,
                                <<14, 12, 3>>},
               <<args.RD, args.RS1, args.AQ, args.RL>>)>> :
            args \in {riscv_args}} : TRUE
rv64_f ==
    CHOOSE insts \in
        {<<InstructionTemplate_new("fcvt_l_s",
               Opcode(20) \cup {<<31, 27, 24>>, <<26, 25, 0>>, <<24, 20, 2>>},
               <<args.RD, args.RS1, args.RM>>)>> :
            args \in {riscv_args}} : TRUE
rv64_d ==
    CHOOSE insts \in
        {<<InstructionTemplate_new("fmv_x_d",
               Opcode(20) \cup {<<31, 27, 28>>, <<26, 25, 1>>, <<24, 20, 0>>,
                                <<14, 12, 0>>}, <<args.RD, args.RS1>>)>> :
            args \in {riscv_args}} : TRUE


Range(s) == {s[i] : i \in 1..Len(s)}

\* The static table: every template of every extension.
Templates == rv_i \o rv_m \o rv_a \o rv_f \o rv_d
             \o rv64_i \o rv64_m \o rv64_a \o rv64_f \o rv64_d

\* Templates a caller of parse_instructions builds with
\* InstructionTemplate::new, outside the table: one for every word of the
\* OP-IMM opcode, one for those with funct3 = 0.  They match words that
\* addi and slli match too.  A third has an operand a caller builds with
\* ArgumentSpec::new, of the full 32 bits.
CallerTemplates ==
    CHOOSE insts \in
        {<<InstructionTemplate_new("op_imm", Opcode(4),
                                   <<args.RS1, args.RD>>),
           InstructionTemplate_new("op_imm_0", Opcode(4) \cup {<<14, 12, 0>>},
                                   <<args.IMM12>>),
           InstructionTemplate_new("word", {},
                                   <<ArgumentSpec_new("bits", 32, 0)>>)>> :
            args \in {riscv_args}} : TRUE


\* A &'static ArgumentSpec / InstructionTemplate: the name of the entry.
AllSpecs == {riscv_args[k] : k \in DOMAIN riscv_args}
SpecTable ==
    CHOOSE table \in
        {[n \in {s.name : s \in specs} |-> CHOOSE s \in specs : s.name = n] :
            specs \in {AllSpecs \cup UNION {Range(t.operands) :
                                              t \in Range(CallerTemplates)}}} :
        TRUE
TemplateTable ==
    CHOOSE table \in
        {[n \in {t.name : t \in insts} |-> CHOOSE t \in insts : t.name = n] :
            insts \in {Range(Templates \o CallerTemplates)}} : TRUE
SpecOf(name) == SpecTable[name]
TemplateOf(name) == TemplateTable[name]

\* The references to the templates of a list, in its order.
Refs(insts) == [i \in 1..Len(insts) |-> insts[i].name]

\* riscv::all()
all == Refs(Templates)

\* sets::riscv_g()
riscv_g == Refs(rv64_i \o rv64_a \o rv64_d \o rv64_f \o rv64_m
                \o rv_i \o rv_a \o rv_d \o rv_f \o rv_m)

\* sets::riscv_base()
riscv_base == Refs(rv64_i \o rv_i)

\* InstructionTemplate::operands(): the references to the operands present.
operands(template) ==
    [i \in 1..Len(TemplateOf(template).operands) |->
        TemplateOf(template).operands[i].name]

\* --------------------------------------------------- instructions.rs

\* ArgumentSpec::length
length(spec) == SpecOf(spec).length

\* 2u32.pow(exp): the product kept in 32 bits, and whether it overflowed.
\* With overflow checks the overflow is a panic; without, the value wraps.
pow(exp) ==
    [value |-> IF exp < 32 THEN {exp} ELSE {}, overflow |-> exp >= 32]

\* ArgumentSpec::max_value: 2u32.pow(length), as the build without overflow
\* checks computes it.
max_value(spec) == pow(SpecOf(spec).length).value

\* Argument { spec, value }
Argument_new(spec, value) == [spec |-> spec, value |-> value]

\* A faulty extract whose mask is one bit short: (inst >> offset) &
\* (2^(length-1) - 1).
extract_short_mask(spec, inst) ==
    LET mask == 0..(SpecOf(spec).length - 2)
    IN  Argument_new(spec, Shr(inst, SpecOf(spec).offset) \cap mask)

\* ArgumentSpec::extract: (inst >> offset) & (2u32.pow(length) - 1), as the
\* build without overflow checks computes it: 0 - 1 wraps to all ones.
extract(spec, inst) ==
    LET power == pow(SpecOf(spec).length).value
        mask == IF power = {} THEN 0..31 ELSE 0..(SpecOf(spec).length - 1)
    IN  Argument_new(spec, Shr(inst, SpecOf(spec).offset) \cap mask)

\* Argument::encode: value << offset
Argument_encode(arg) == Shl(arg.value, SpecOf(arg.spec).offset)

\* A faulty matches that forgets the mask: data == match_pattern
matches_unmasked(template, data) ==
    data = TemplateOf(template).match_pattern

\* InstructionTemplate::matches: data & mask_pattern == match_pattern
matches(template, data) ==
    (data \cap TemplateOf(template).mask_pattern)
        = TemplateOf(template).match_pattern

\* Option<T>: None is <<>>, Some(x) is <<x>>.
None == <<>>
Some(x) == <<x>>

\* Instruction { template, arguments }
Instruction_new(template, arguments) ==
    [template |-> template, arguments |-> arguments]

\* The debug assertions of Instruction::new: as many arguments as the
\* template has operands, and the i-th argument is for the i-th operand.
Instruction_new_asserts(inst) ==
    /\ Len(inst.arguments) = Len(operands(inst.template))
    /\ \A i \in 1..Len(inst.arguments) :
          inst.arguments[i].spec = operands(inst.template)[i]

\* InstructionTemplate::decode
decode(template, data) ==
    IF ~matches(template, data) THEN None
    ELSE Some(Instruction_new(template,
            [i \in 1..Len(operands(template)) |->
                extract(operands(template)[i], data)]))

\* A faulty encode that shifts the i-th argument to the field of the i-th
\* operand of the template.
Instruction_encode_positional(inst) ==
    TemplateOf(inst.template).match_pattern
        \cup UNION {Shl(inst.arguments[i].value,
                        SpecOf(operands(inst.template)[i]).offset) :
                        i \in 1..Len(inst.arguments)}

\* Instruction::encode: the match pattern, or-ed with every argument.
Instruction_encode(inst) ==
    TemplateOf(inst.template).match_pattern
        \cup UNION {Argument_encode(inst.arguments[i]) :
                        i \in 1..Len(inst.arguments)}

\* A faulty set_arg that pushes new_arg without dropping the old argument.
set_arg_push(inst, new_arg) ==
    [inst EXCEPT !.arguments = Append(@, new_arg)]

\* Instruction::set_arg: drop the arguments of new_arg's spec, push new_arg.
set_arg(inst, new_arg) ==
    LET Keep(arg) == SpecOf(arg.spec) /= SpecOf(new_arg.spec)
    IN  [inst EXCEPT !.arguments = Append(SelectSeq(@, Keep), new_arg)]

\* ------------------------------------------------ assembler.rs, parser.rs

\* A faulty assembler that writes the bytes most significant first.
to_be_bytes(word) ==
    [k \in 1..4 |-> Val(Shr(word, 8 * (4 - k)) \cap 0..7, 8)]

\* u32::to_le_bytes: the four bytes, least significant first.
to_le_bytes(word) ==
    [k \in 1..4 |-> Val(Shr(word, 8 * (k - 1)) \cap 0..7, 8)]

\* u32::from_ne_bytes on a little-endian host (the hosts the fuzzer's
\* fork server runs on): the first byte is the least significant.
from_ne_bytes(bytes) ==
    UNION {Shl(BitsOf(bytes[k], 8), 8 * (k - 1)) : k \in 1..4}

\* assemble_instructions: every instruction's encoding, byte by byte.
RECURSIVE assemble_from(_, _, _)
assemble_from(input, i, result) ==
    IF i > Len(input) THEN result
    ELSE assemble_from(input, i + 1,
                       result \o to_le_bytes(Instruction_encode(input[i])))
\* A faulty assembler whose loop leaves out the first instruction.
assemble_instructions_from_second(input) == assemble_from(input, 2, <<>>)

assemble_instructions(input) == assemble_from(input, 1, <<>>)

\* Result<Vec<Instruction>, String>
Ok(value) == [ok |-> TRUE, value |-> value, err |-> "", data |-> {}]
Err(err, data) == [ok |-> FALSE, value |-> <<>>, err |-> err, data |-> data]

RECURSIVE first_decoded(_, _, _)
RECURSIVE last_decoded(_, _, _)
\* A faulty inner loop that does not break: the last template that decodes
\* data wins.
last_decoded(insts, data, k) ==
    IF k > Len(insts) THEN None
    ELSE LET later == last_decoded(insts, data, k + 1)
         IN  IF later /= None THEN later ELSE decode(insts[k], data)

\* The inner loop of parse_instructions: the first template of insts,
\* from index k on, that decodes data.
first_decoded(insts, data, k) ==
    IF k > Len(insts) THEN None
    ELSE LET decoded_inst == decode(insts[k], data)
         IN  IF decoded_inst /= None THEN decoded_inst
             ELSE first_decoded(insts, data, k + 1)

RECURSIVE parse_from_skip(_, _, _, _)
\* A faulty outer loop that skips a word no template decodes.
parse_from_skip(input, insts, i, result) ==
    IF i >= Len(input) THEN Ok(result)
    ELSE LET data == from_ne_bytes(SubSeq(input, i + 1, i + 4))
             parsed == first_decoded(insts, data, 1)
         IN  IF parsed = None
             THEN parse_from_skip(input, insts, i + 4, result)
             ELSE parse_from_skip(input, insts, i + 4,
                                  Append(result, parsed[1]))

\* The outer loop of parse_instructions from byte offset i on.
RECURSIVE parse_from(_, _, _, _)
parse_from(input, insts, i, result) ==
    IF i >= Len(input) THEN Ok(result)
    ELSE LET data == from_ne_bytes(SubSeq(input, i + 1, i + 4))
             parsed == first_decoded(insts, data, 1)
         IN  IF parsed = None
             THEN Err("Failed to parse bytes as instruction", data)
             ELSE parse_from(input, insts, i + 4, Append(result, parsed[1]))

\* parse_instructions(input, insts)
parse_instructions(input, insts) ==
    IF Len(input) % 4 /= 0
    THEN Err("Tailing garbage in instructions", {})
    ELSE parse_from(input, insts, 0, <<>>)

\* ------------------------------------------------------------- the rng

\* A Rand, by the values its next() returns: the draws are taken in turn,
\* and round again after the last; next is the index of the one to come.
Rand_with(draws) == [draws |-> draws, next |-> 1]

\* Rand::below(n): the value returned, the next value reduced to 0..n-1.
below(rand, n) == rand.draws[rand.next] % n

\* The Rand after k calls of below (or of choose, which calls below once).
drawn(rand, k) ==
    [rand EXCEPT !.next = ((@ - 1 + k) % Len(rand.draws)) + 1]

\* The Rands the mutators are run with: every sequence of at most MaxDraws
\* values, each of them a small one or one of two that miss both chances of
\* the generator, the second of them large.
Rngs ==
    LET RawDraws == (0..RandBound) \cup {99, 2 ^ 20 - 2}
    IN  {Rand_with(draws) :
            draws \in UNION {[1..n -> RawDraws] : n \in 1..MaxDraws}}

\* ---------------------------------------------------------- generator.rs

\* InstGenerator::new
InstGenerator_new ==
    [known_args |-> <<>>, reuse_chance |-> 50, power_of_two_chance |-> 50]

\* InstGenerator::forward_args
forward_args(generator, args) ==
    [generator EXCEPT !.known_args = @ \o args]

\* A faulty generate_argument whose reuse filter compares the operands, not
\* their bit lengths.
generate_argument_same_spec(generator, rand, arg) ==
    LET SameSpec(x) == x.spec = arg
        options == SelectSeq(generator.known_args, SameSpec)
    IN  IF below(rand, 100) < generator.reuse_chance /\ options /= <<>>
        THEN [value |->
                Argument_new(arg,
                    options[below(drawn(rand, 1), Len(options)) + 1].value),
              rand |-> drawn(rand, 2)]
        ELSE [value |->
                IF below(drawn(rand, 1), 100) < generator.power_of_two_chance
                THEN Argument_new(arg,
                         Shl(Bits(1), below(drawn(rand, 2), length(arg))))
                ELSE Argument_new(arg,
                         Bits(below(drawn(rand, 2),
                                    Val(max_value(arg), 32)))),
              rand |-> drawn(rand, 3)]

\* InstGenerator::generate_argument: the Argument returned and the Rand
\* left.  A reuse draw that finds no known argument of the bit length falls
\* through to the draw of the power-of-two chance.
generate_argument(generator, rand, arg) ==
    LET SameLength(x) == length(x.spec) = length(arg)
        options == SelectSeq(generator.known_args, SameLength)
    IN  IF below(rand, 100) < generator.reuse_chance /\ options /= <<>>
        THEN [value |->
                Argument_new(arg,
                    options[below(drawn(rand, 1), Len(options)) + 1].value),
              rand |-> drawn(rand, 2)]
        ELSE [value |->
                IF below(drawn(rand, 1), 100) < generator.power_of_two_chance
                THEN Argument_new(arg,
                         Shl(Bits(1), below(drawn(rand, 2), length(arg))))
                ELSE Argument_new(arg,
                         Bits(below(drawn(rand, 2),
                                    Val(max_value(arg), 32)))),
              rand |-> drawn(rand, 3)]

\* The loop of generate_instruction from operand i of ops on: the arguments
\* pushed and the Rand left.
RECURSIVE generate_arguments(_, _, _, _)
generate_arguments(generator, rand, ops, i) ==
    IF i > Len(ops) THEN [arguments |-> <<>>, rand |-> rand]
    ELSE CHOOSE made \in
            UNION {{[arguments |-> <<first.value>> \o rest.arguments,
                     rand |-> rest.rand] :
                        rest \in {generate_arguments(generator, first.rand,
                                                     ops, i + 1)}} :
                   first \in {generate_argument(generator, rand, ops[i])}} :
            TRUE

\* InstGenerator::generate_instruction: the Instruction returned and the
\* Rand left.
generate_instruction(generator, rand, insts) ==
    CHOOSE generated \in
        UNION {{[inst |-> Instruction_new(template, made.arguments),
                 rand |-> made.rand] :
                    made \in {generate_arguments(generator, drawn(rand, 1),
                                                 operands(template), 1)}} :
               template \in {insts[below(rand, Len(insts)) + 1]}} :
        TRUE

\* ------------------------------------------------------------ mutator.rs

\* enum Mutation
Mutation == {"Add", "Replace", "ReplaceArg", "RepeatSeveral", "SwapTwo",
             "Remove", "ReplaceWithNop", "Snippet"}

\* Vec::insert(index, element) and Vec::remove(index), indices from 0.
insert(vec, index, element) ==
    SubSeq(vec, 1, index) \o <<element>> \o SubSeq(vec, index + 1, Len(vec))
remove(vec, index) ==
    SubSeq(vec, 1, index) \o SubSeq(vec, index + 2, Len(vec))

\* What mutate_with leaves: its Option<()> and the program.  returned is
\* FALSE when the call never returns, its loop going round for ever on the
\* draws of this Rand.
Outcome(ret, program) == [ret |-> ret, program |-> program, returned |-> TRUE]
Unreturned(program) == [ret |-> None, program |-> program, returned |-> FALSE]

\* gen_inst: a generator that was forwarded every argument of the program.
RECURSIVE forward_all(_, _, _)
forward_all(generator, program, i) ==
    IF i > Len(program) THEN generator
    ELSE forward_all(forward_args(generator, program[i].arguments),
                     program, i + 1)
gen_inst(program, rng) ==
    CHOOSE generated \in
        {generate_instruction(generator, rng, insts) :
            generator \in {forward_all(InstGenerator_new, program, 1)},
            insts \in {riscv_base}} :
        TRUE

\* make_snippet: the call idiom or the return idiom, and the Rand left.
make_call(rng) ==
    [snippet |->
        <<Instruction_new("auipc",
              <<Argument_new("rd", Bits(2)), Argument_new("imm20", Bits(0))>>),
          Instruction_new("jalr",
              <<Argument_new("rd", Bits(1)), Argument_new("rs1", Bits(2)),
                Argument_new("imm12", Bits(below(rng, 64) * 4))>>)>>,
     rng |-> drawn(rng, 1)]
make_ret(rng) ==
    [snippet |->
        <<Instruction_new("jalr",
              <<Argument_new("rd", Bits(0)), Argument_new("rs1", Bits(1)),
                Argument_new("imm12", Bits(0))>>)>>,
     rng |-> rng]
make_snippet(rng) ==
    CHOOSE snippet \in
        {options[selected + 1] :
            options \in {<<make_call(drawn(rng, 1)),
                           make_ret(drawn(rng, 1))>>},
            selected \in {below(rng, 2)}} :
        TRUE

\* add_pos: the insertion index the closure returns, and the Rand left.
add_pos(program, rng) ==
    IF program = <<>> THEN [pos |-> 0, rng |-> rng]
    ELSE [pos |-> below(rng, Max(Len(program), 1)), rng |-> drawn(rng, 1)]

\* valid_pos: the Option<usize> the closure returns, and the Rand left.
valid_pos(program, rng) ==
    IF program = <<>> THEN [pos |-> None, rng |-> rng]
    ELSE [pos |-> Some(below(rng, Len(program))), rng |-> drawn(rng, 1)]

\* A faulty Add that inserts the new instruction twice.
mutate_Add_twice(program, rng) ==
    CHOOSE out \in
        UNION {{Outcome(Some(<<>>),
                        insert(insert(program, at.pos, generated.inst),
                               at.pos, generated.inst)) :
                    generated \in {gen_inst(program, at.rng)}} :
               at \in {add_pos(program, rng)}} :
        TRUE

\* Mutation::Add
mutate_Add(program, rng) ==
    CHOOSE out \in
        UNION {{Outcome(Some(<<>>),
                        insert(program, at.pos, generated.inst)) :
                    generated \in {gen_inst(program, at.rng)}} :
               at \in {add_pos(program, rng)}} :
        TRUE

\* The loop of Mutation::Replace: a round draws a position and a new
\* instruction, and the loop ends with the first that differs from the one
\* at its position.  The program is the same in every round, so a loop that
\* has not ended after as many rounds as the Rand has draws never ends.
RECURSIVE replace_loop(_, _, _)
replace_loop(program, rng, rounds) ==
    CHOOSE out \in
        UNION {IF at.pos = None THEN {Outcome(None, program)}
               ELSE {IF generated.inst /= program[at.pos[1] + 1]
                     THEN Outcome(Some(<<>>),
                                  [program EXCEPT ![at.pos[1] + 1] =
                                                      generated.inst])
                     ELSE IF rounds <= 1 THEN Unreturned(program)
                     ELSE replace_loop(program, generated.rand, rounds - 1) :
                        generated \in {gen_inst(program, at.rng)}} :
               at \in {valid_pos(program, rng)}} :
        TRUE

\* Mutation::Replace
mutate_Replace(program, rng) ==
    replace_loop(program, rng, Len(rng.draws))

\* The loop of Mutation::ReplaceArg: a round generates an argument for
\* arg_spec with a new generator, and the loop ends with the first that
\* differs from old_arg; None when it never ends.
RECURSIVE replace_arg_loop(_, _, _)
replace_arg_loop(old_arg, rng, rounds) ==
    CHOOSE new_arg \in
        {IF ~(generated.value = old_arg) THEN Some(generated.value)
         ELSE IF rounds <= 1 THEN None
         ELSE replace_arg_loop(old_arg, generated.rand, rounds - 1) :
            generated \in {generate_argument(InstGenerator_new, rng,
                                             old_arg.spec)}} :
        TRUE

\* Mutation::ReplaceArg
mutate_ReplaceArg(program, rng) ==
    CHOOSE out \in
        UNION {IF at.pos = None THEN {Outcome(None, program)}
               ELSE IF program[at.pos[1] + 1].arguments = <<>>
               THEN {Outcome(None, program)}
               ELSE UNION {
                   {IF new_arg = None THEN Unreturned(program)
                    ELSE Outcome(Some(<<>>),
                             [program EXCEPT ![at.pos[1] + 1] =
                                 set_arg(program[at.pos[1] + 1],
                                         new_arg[1])]) :
                       new_arg \in {replace_arg_loop(old_arg,
                                                     drawn(at.rng, 1),
                                                     Len(rng.draws))}} :
                   old_arg \in
                       {program[at.pos[1] + 1].arguments[
                           below(at.rng,
                                 Len(program[at.pos[1] + 1].arguments))
                               + 1]}} :
               at \in {valid_pos(program, rng)}} :
        TRUE

\* A faulty SwapTwo that copies program[pos2] to pos and never writes the
\* backup to pos2.
mutate_SwapTwo_copy(program, rng) ==
    CHOOSE out \in
        UNION {{IF first.pos = None \/ second.pos = None
                THEN Outcome(None, program)
                ELSE Outcome(Some(<<>>),
                             [program EXCEPT ![first.pos[1] + 1] =
                                                 program[second.pos[1] + 1]]) :
                    second \in {valid_pos(program, first.rng)}} :
               first \in {valid_pos(program, rng)}} :
        TRUE

\* Mutation::SwapTwo
mutate_SwapTwo(program, rng) ==
    CHOOSE out \in
        UNION {{IF first.pos = None \/ second.pos = None
                THEN Outcome(None, program)
                ELSE Outcome(Some(<<>>),
                             [[program EXCEPT ![first.pos[1] + 1] =
                                                  program[second.pos[1] + 1]]
                                 EXCEPT ![second.pos[1] + 1] =
                                            program[first.pos[1] + 1]]) :
                    second \in {valid_pos(program, first.rng)}} :
               first \in {valid_pos(program, rng)}} :
        TRUE

\* The loop of Mutation::RepeatSeveral: n times insert(pos, program[pos]).
RECURSIVE repeat_insert(_, _, _)
repeat_insert(program, pos, n) ==
    IF n = 0 THEN program
    ELSE repeat_insert(insert(program, pos, program[pos + 1]), pos, n - 1)

\* A faulty RepeatSeveral that draws the number of copies from 1..32.
mutate_RepeatSeveral_wide(program, rng) ==
    CHOOSE out \in
        {IF at.pos = None THEN Outcome(None, program)
         ELSE Outcome(Some(<<>>),
                      repeat_insert(program, at.pos[1],
                                    below(at.rng, 32) + 1)) :
            at \in {valid_pos(program, rng)}} :
        TRUE

\* Mutation::RepeatSeveral
mutate_RepeatSeveral(program, rng) ==
    CHOOSE out \in
        {IF at.pos = None THEN Outcome(None, program)
         ELSE Outcome(Some(<<>>),
                      repeat_insert(program, at.pos[1],
                                    below(at.rng, 4) + 1)) :
            at \in {valid_pos(program, rng)}} :
        TRUE

\* A faulty Remove that drops the tail from the drawn index on.
mutate_Remove_truncate(program, rng) ==
    CHOOSE out \in
        {IF at.pos = None THEN Outcome(None, program)
         ELSE Outcome(Some(<<>>), SubSeq(program, 1, at.pos[1])) :
            at \in {valid_pos(program, rng)}} :
        TRUE

\* Mutation::Remove
mutate_Remove(program, rng) ==
    CHOOSE out \in
        {IF at.pos = None THEN Outcome(None, program)
         ELSE Outcome(Some(<<>>), remove(program, at.pos[1])) :
            at \in {valid_pos(program, rng)}} :
        TRUE

\* The nop of Mutation::ReplaceWithNop (and the fuzzer's initial input).
nop ==
    Instruction_new("addi", <<Argument_new("rd", Bits(0)),
                              Argument_new("rs1", Bits(0)),
                              Argument_new("imm12", Bits(0))>>)

\* A faulty ReplaceWithNop that pushes a nop onto an empty program.
mutate_ReplaceWithNop_push(program, rng) ==
    CHOOSE out \in
        {IF at.pos = None THEN Outcome(Some(<<>>), <<nop>>)
         ELSE Outcome(Some(<<>>), [program EXCEPT ![at.pos[1] + 1] = nop]) :
            at \in {valid_pos(program, rng)}} :
        TRUE

\* Mutation::ReplaceWithNop
mutate_ReplaceWithNop(program, rng) ==
    CHOOSE out \in
        {IF at.pos = None THEN Outcome(None, program)
         ELSE Outcome(Some(<<>>), [program EXCEPT ![at.pos[1] + 1] = nop]) :
            at \in {valid_pos(program, rng)}} :
        TRUE

RECURSIVE insert_snippet_front(_, _, _)
\* A faulty Snippet loop that takes the instructions from the front:
\* insert(pos, snippet.remove(0)) until empty.
insert_snippet_front(program, pos, snippet) ==
    IF snippet = <<>> THEN program
    ELSE insert_snippet_front(insert(program, pos, snippet[1]), pos,
                              SubSeq(snippet, 2, Len(snippet)))

\* The loop of Mutation::Snippet: insert(pos, snippet.pop()) until empty.
RECURSIVE insert_snippet(_, _, _)
insert_snippet(program, pos, snippet) ==
    IF snippet = <<>> THEN program
    ELSE insert_snippet(insert(program, pos, snippet[Len(snippet)]), pos,
                        SubSeq(snippet, 1, Len(snippet) - 1))

\* Mutation::Snippet
mutate_Snippet(program, rng) ==
    CHOOSE out \in
        UNION {{Outcome(Some(<<>>),
                        insert_snippet(program, at.pos, made.snippet)) :
                    made \in {make_snippet(at.rng)}} :
               at \in {add_pos(program, rng)}} :
        TRUE

\* mutate_with(program, rng, mutation)
mutate_with(program, rng, mutation) ==
    CASE mutation = "Add" -> mutate_Add(program, rng)
      [] mutation = "Replace" -> mutate_Replace(program, rng)
      [] mutation = "ReplaceArg" -> mutate_ReplaceArg(program, rng)
      [] mutation = "SwapTwo" -> mutate_SwapTwo(program, rng)
      [] mutation = "RepeatSeveral" -> mutate_RepeatSeveral(program, rng)
      [] mutation = "Remove" -> mutate_Remove(program, rng)
      [] mutation = "ReplaceWithNop" -> mutate_ReplaceWithNop(program, rng)
      [] mutation = "Snippet" -> mutate_Snippet(program, rng)

\* A faulty mutate_impl with the two results the wrong way round.
mutate_impl_inverted(program, rng, mutation) ==
    CHOOSE returned \in
        {[result |-> IF ~out.returned THEN "None"
                     ELSE IF out.ret = None THEN "Mutated" ELSE "Skipped",
          program |-> out.program, returned |-> out.returned] :
            out \in {mutate_with(program, rng, mutation)}} :
        TRUE

\* mutate_impl: Skipped when mutate_with returns None, Mutated otherwise;
\* a call whose loop never ends returns nothing.
mutate_impl(program, rng, mutation) ==
    CHOOSE returned \in
        {[result |-> IF ~out.returned THEN "None"
                     ELSE IF out.ret = None THEN "Skipped" ELSE "Mutated",
          program |-> out.program, returned |-> out.returned] :
            out \in {mutate_with(program, rng, mutation)}} :
        TRUE

\* tests::TestSetup::update_changed: the number of positions at which the
\* parsed old bytes and the parsed new bytes differ; unwrap of an Err panics.
update_changed(old_data, new_data) ==
    LET new_insts == parse_instructions(new_data, riscv_g)
        old_insts == parse_instructions(old_data, riscv_g)
    IN  IF ~new_insts.ok \/ ~old_insts.ok
        THEN [panic |-> TRUE, changed_insts |-> 0]
        ELSE [panic |-> FALSE,
              changed_insts |->
                Cardinality({i \in 1..Min(Len(new_insts.value),
                                          Len(old_insts.value)) :
                                new_insts.value[i] /= old_insts.value[i]})]

\* ----------------------------------------------------- program_input.rs

\* impl Serialize for ProgramInput: the assembled bytes.
serialize(insts) == assemble_instructions(insts)

\* ProgramInputVisitor::visit_borrowed_bytes: the parse result unwrapped;
\* unwrap of an Err panics.
deserialize(v) ==
    LET parsed == parse_instructions(v, all)
    IN  IF parsed.ok THEN [panic |-> FALSE, insts |-> parsed.value]
        ELSE [panic |-> TRUE, insts |-> <<>>]

\* HasTargetBytes::target_bytes: the bytes and what its debug assertion sees.
target_bytes(insts) ==
    LET bytes == assemble_instructions(insts)
    IN  [bytes |-> bytes, debug_assert |-> parse_instructions(bytes, all).ok]

\* HasLen::len
len(insts) == Len(insts)

\* ---- ahash 0.8, the dependency generate_name hashes with: its fallback
\* hasher, which a build without the aes target feature uses.  A u64 is the
\* set of its set bits; sums and products are computed on its eight bytes,
\* least significant first.

\* u64::to_le_bytes and u64::from_le_bytes (of up to eight bytes).
u64_to_le_bytes(x) == [i \in 1..8 |-> Val(Shr(x, 8 * (i - 1)) \cap 0..7, 8)]
u64_from_le_bytes(b) ==
    UNION {{k + 8 * (i - 1) : k \in BitsOf(b[i], 8)} : i \in 1..Len(b)}

\* The bytes of a number given by its column sums, carries propagated.
RECURSIVE carried(_, _, _)
carried(cols, i, carry) ==
    IF i > Len(cols) THEN <<>>
    ELSE <<(cols[i] + carry) % 256>>
            \o carried(cols, i + 1, (cols[i] + carry) \div 256)

\* The column of weight 256^(k - 1) of the product of two u64s.
RECURSIVE column(_, _, _, _)
column(x, y, k, i) ==
    IF i > 8 THEN 0
    ELSE (IF k + 1 - i \in 1..8 THEN x[i] * y[k + 1 - i] ELSE 0)
            + column(x, y, k, i + 1)

\* (a as u128) * (b as u128): sixteen bytes.
widening_mul(a, b) ==
    carried([k \in 1..16 |->
                column(u64_to_le_bytes(a), u64_to_le_bytes(b), k, 1)], 1, 0)

\* u64::wrapping_add, u64::wrapping_mul, u64::rotate_left and ^.
wrapping_add(a, b) ==
    u64_from_le_bytes(SubSeq(
        carried([i \in 1..8 |-> u64_to_le_bytes(a)[i] + u64_to_le_bytes(b)[i]],
                1, 0), 1, 8))
wrapping_mul(a, b) == u64_from_le_bytes(SubSeq(widening_mul(a, b), 1, 8))
rotate_left(x, n) == {(k + n) % 64 : k \in x}
xor(a, b) == (a \ b) \cup (b \ a)

\* ahash::operations::folded_multiply: the low half of the 128-bit product
\* xor its high half.
folded_multiply(s, by) ==
    xor(u64_from_le_bytes(SubSeq(widening_mul(s, by), 1, 8)),
        u64_from_le_bytes(SubSeq(widening_mul(s, by), 9, 16)))

\* ahash::RandomState::with_seeds(k0, k1, k2, k3).build_hasher(): the seeds
\* xor the constants PI2 are the keys, and AHasher::from_random_state makes
\* the hasher { buffer: k1, pad: k0, extra_keys: [k2, k3] } of them.
build_hasher(k0, k1, k2, k3) ==
    LET PI2 ==
            <<u64_from_le_bytes(<<119, 19, 208, 56, 230, 33, 40, 69>>),
              u64_from_le_bytes(<<108, 12, 233, 52, 207, 102, 84, 190>>),
              u64_from_le_bytes(<<221, 80, 124, 201, 183, 41, 172, 192>>),
              u64_from_le_bytes(<<23, 9, 71, 181, 181, 213, 132, 63>>)>>
    IN  [buffer |-> xor(Bits(k1), PI2[2]),
         pad |-> xor(Bits(k0), PI2[1]),
         extra_keys |-> <<xor(Bits(k2), PI2[3]), xor(Bits(k3), PI2[4])>>]

\* ahash::operations::read_small of at most eight bytes: [u64; 2].
read_small(data) ==
    IF Len(data) >= 2
    THEN IF Len(data) >= 4
         THEN <<u64_from_le_bytes(SubSeq(data, 1, 4)),
                u64_from_le_bytes(SubSeq(data, Len(data) - 3, Len(data)))>>
         ELSE <<u64_from_le_bytes(SubSeq(data, 1, 2)),
                u64_from_le_bytes(<<data[Len(data)]>>)>>
    ELSE IF Len(data) > 0
         THEN <<u64_from_le_bytes(<<data[1]>>),
                u64_from_le_bytes(<<data[1]>>)>>
         ELSE <<{}, {}>>

\* AHasher::large_update of a block of two u64s; ROT is 23.
large_update(hasher, block) ==
    [hasher EXCEPT
        !.buffer =
            rotate_left(
                xor(wrapping_add(@, hasher.pad),
                    folded_multiply(xor(block[1], hasher.extra_keys[1]),
                                    xor(block[2], hasher.extra_keys[2]))),
                23)]

\* The while loop of AHasher::write: the blocks of sixteen bytes, as long
\* as more than sixteen bytes are left.
RECURSIVE write_blocks(_, _)
write_blocks(hasher, data) ==
    IF Len(data) > 16
    THEN write_blocks(
             large_update(hasher,
                          <<u64_from_le_bytes(SubSeq(data, 1, 8)),
                            u64_from_le_bytes(SubSeq(data, 9, 16))>>),
             SubSeq(data, 17, Len(data)))
    ELSE hasher

\* Hasher::write(input) of AHasher: the length is added in and the sum
\* multiplied by MULTIPLE, then the input goes in by its size class.
hasher_write(hasher, input) ==
    LET MULTIPLE == u64_from_le_bytes(<<45, 127, 149, 76, 45, 244, 81, 88>>)
        added == [hasher EXCEPT !.buffer =
                     wrapping_mul(wrapping_add(@, Bits(Len(input))),
                                  MULTIPLE)]
    IN  IF Len(input) > 8
        THEN IF Len(input) > 16
             THEN write_blocks(
                      large_update(
                          added,
                          <<u64_from_le_bytes(SubSeq(input, Len(input) - 15,
                                                     Len(input) - 8)),
                            u64_from_le_bytes(SubSeq(input, Len(input) - 7,
                                                     Len(input)))>>),
                      input)
             ELSE large_update(
                      added,
                      <<u64_from_le_bytes(SubSeq(input, 1, 8)),
                        u64_from_le_bytes(SubSeq(input, Len(input) - 7,
                                                 Len(input)))>>)
        ELSE large_update(added, read_small(input))

\* Hasher::finish of AHasher.
hasher_finish(hasher) ==
    rotate_left(folded_multiply(hasher.buffer, hasher.pad),
                Val(hasher.buffer \cap 0..5, 6))

\* format!("{}", n) of a usize: the decimal digits, as a sequence of
\* characters.
HexDigits == <<"0", "1", "2", "3", "4", "5", "6", "7", "8", "9",
               "a", "b", "c", "d", "e", "f">>
RECURSIVE format_decimal(_)
format_decimal(n) ==
    IF n < 10 THEN <<HexDigits[n + 1]>>
    ELSE Append(format_decimal(n \div 10), HexDigits[(n % 10) + 1])

\* format!("{:016x}", h) of a u64: sixteen lowercase hex digits, the most
\* significant first.
format_016x(h) ==
    [d \in 1..16 |->
        HexDigits[Val(Shr(h, 4 * (16 - d)) \cap 0..3, 4) + 1]]

\* A faulty generate_name that also hashes the index.
generate_name_indexed(insts, idx) ==
    LET hasher == hasher_write(build_hasher(0, 0, 0, 0),
                               assemble_instructions(insts) \o <<idx>>)
    IN  <<"s", "i", "z", "e", ":">> \o format_decimal(len(insts))
            \o <<"-", "h", "a", "s", "h", ":">>
            \o format_016x(hasher_finish(hasher))

\* Input::generate_name: "size:{}-hash:{:016x}" as a sequence of characters.
generate_name(insts, idx) ==
    LET hasher == hasher_write(build_hasher(0, 0, 0, 0),
                               assemble_instructions(insts))
    IN  <<"s", "i", "z", "e", ":">> \o format_decimal(len(insts))
            \o <<"-", "h", "a", "s", "h", ":">>
            \o format_016x(hasher_finish(hasher))

\* [T]::clone_from_slice: panics when the two slices differ in length,
\* otherwise dst becomes a copy of src.
clone_from_slice(dst, src) ==
    IF Len(dst) /= Len(src) THEN [panic |-> TRUE, vec |-> dst]
    ELSE [panic |-> FALSE, vec |-> src]

\* ProgramInput::crop: Ok of the new input, Err(illegal_argument), or the
\* panic of clone_from_slice into the empty vec![].
crop(insts, from, to) ==
    IF from < to /\ to <= Len(insts)
    THEN LET cloned == clone_from_slice(<<>>, SubSeq(insts, from + 1, to))
         IN  IF cloned.panic
             THEN [kind |-> "panic", insts |-> <<>>, err |-> ""]
             ELSE [kind |-> "Ok", insts |-> cloned.vec, err |-> ""]
    ELSE [kind |-> "Err", insts |-> <<>>,
          err |-> "Invalid from or to argument"]

\* ------------------------------------------------------- the state machine

VARIABLES
    program,      \* ProgramInput::insts, the program the mutators edit
    old_program,  \* the program before the last mutate call
    mutation,     \* the Mutation of the mutator that ran last
    result,       \* its MutationResult
    steps,        \* mutate calls so far
    io,           \* the last of target_bytes / serialize / deserialize / ...
    data,         \* the byte buffer that operation produced
    assert_ok,    \* what the debug assertion of target_bytes evaluated to
    loaded,       \* what deserialize returned
    parsed,       \* what parse_instructions returned
    inst,         \* the instruction under the encoder
    encoded,      \* its encoding
    decoded,      \* what decode returned for the encoding
    call_args,    \* the arguments of the last call of a function on its own
    call_ret,     \* what that call returned
    generator,    \* an InstGenerator and the arguments forwarded to it
    stage         \* the state and the executor a calibration stage runs on

vars == <<program, old_program, mutation, result, steps, io, data, assert_ok,
          loaded, parsed, inst, encoded, decoded, call_args, call_ret,
          generator, stage>>

NotLoaded == [panic |-> FALSE, insts |-> <<>>]

\* No calibration stage: an empty corpus, no metadata, nothing run.
NoStage ==
    [corpus |-> <<>>, scheduler_metadata |-> None, map_observer |-> FALSE,
     run_target |-> <<>>, log |-> 0]

Idle ==
    /\ mutation = "None" /\ result = "None" /\ steps = 0
    /\ io = "none" /\ data = <<>> /\ assert_ok = TRUE
    /\ loaded = NotLoaded /\ parsed = Ok(<<>>)
    /\ inst = nop /\ encoded = {} /\ decoded = None
    /\ call_args = <<>> /\ call_ret = <<>>
    /\ generator = InstGenerator_new
    /\ stage = NoStage

\* all_riscv_mutations(): the Mutation of each mutator of the list.
all_riscv_mutations ==
    <<"Add", "Add", "Remove", "Remove", "ReplaceArg", "ReplaceArg",
      "Replace", "Replace", "RepeatSeveral", "RepeatSeveral",
      "SwapTwo", "SwapTwo", "Snippet">>

\* A faulty list whose second mutator adds an instruction.
reducing_mutations_add == <<"Remove", "Add", "ReplaceWithNop">>

\* reducing_mutations(): the Mutation of each mutator of the list.
reducing_mutations == <<"Remove", "Remove", "ReplaceWithNop">>

\* The input the mutators are called on first: the nop seed sim-fuzzer adds
\* as its initial input, or the empty input the mutator's tests start from.
Init ==
    /\ program \in {<<>>, <<nop>>}
    /\ old_program = program
    /\ Idle

\* What Mutator::mutate of a mutator of one of the two lists leaves when
\* mutate_impl returned out for its mutation m.
Mutated(m, out) ==
    /\ m \in Range(all_riscv_mutations) \cup Range(reducing_mutations)
    /\ out.returned
    /\ Len(out.program) <= MaxLen
    /\ program' = out.program
    /\ result' = out.result
    /\ old_program' = program
    /\ mutation' = m
    /\ steps' = steps + 1
    /\ io' = "none" /\ data' = <<>> /\ assert_ok' = TRUE /\ loaded' = NotLoaded
    /\ UNCHANGED <<call_args, call_ret, generator, stage>>
    /\ UNCHANGED <<parsed, inst, encoded, decoded>>

\* Mutator::mutate of a RiscVInstructionMutator::new(m) on the input, one
\* action for each Mutation m of a mutator the library builds.
MutateAdd ==
    /\ steps < MaxSteps
    /\ \E rng \in Rngs :
          \E out \in {mutate_impl(program, rng, "Add")} :
              Mutated("Add", out)
MutateReplace ==
    /\ steps < MaxSteps
    /\ \E rng \in Rngs :
          \E out \in {mutate_impl(program, rng, "Replace")} :
              Mutated("Replace", out)
MutateReplaceArg ==
    /\ steps < MaxSteps
    /\ \E rng \in Rngs :
          \E out \in {mutate_impl(program, rng, "ReplaceArg")} :
              Mutated("ReplaceArg", out)
MutateRepeatSeveral ==
    /\ steps < MaxSteps
    /\ \E rng \in Rngs :
          \E out \in {mutate_impl(program, rng, "RepeatSeveral")} :
              Mutated("RepeatSeveral", out)
MutateSwapTwo ==
    /\ steps < MaxSteps
    /\ \E rng \in Rngs :
          \E out \in {mutate_impl(program, rng, "SwapTwo")} :
              Mutated("SwapTwo", out)
MutateRemove ==
    /\ steps < MaxSteps
    /\ \E rng \in Rngs :
          \E out \in {mutate_impl(program, rng, "Remove")} :
              Mutated("Remove", out)
MutateReplaceWithNop ==
    /\ steps < MaxSteps
    /\ \E rng \in Rngs :
          \E out \in {mutate_impl(program, rng, "ReplaceWithNop")} :
              Mutated("ReplaceWithNop", out)
MutateSnippet ==
    /\ steps < MaxSteps
    /\ \E rng \in Rngs :
          \E out \in {mutate_impl(program, rng, "Snippet")} :
              Mutated("Snippet", out)

\* HasTargetBytes::target_bytes of the input.
TargetBytes ==
    /\ io = "none"
    /\ LET target == target_bytes(program)
       IN  data' = target.bytes /\ assert_ok' = target.debug_assert
    /\ io' = "target_bytes"
    /\ UNCHANGED <<call_args, call_ret, generator, stage>>
    /\ UNCHANGED <<program, old_program, mutation, result, steps, loaded,
                   parsed, inst, encoded, decoded>>

\* The input is serialized ...
Serialize ==
    /\ io = "none"
    /\ data' = serialize(program)
    /\ io' = "serialize"
    /\ UNCHANGED <<call_args, call_ret, generator, stage>>
    /\ UNCHANGED <<program, old_program, mutation, result, steps, assert_ok,
                   loaded, parsed, inst, encoded, decoded>>

\* ... and the bytes are deserialized.
Deserialize ==
    /\ io = "serialize"
    /\ loaded' = deserialize(data)
    /\ io' = "deserialize"
    /\ UNCHANGED <<call_args, call_ret, generator, stage>>
    /\ UNCHANGED <<program, old_program, mutation, result, steps, data,
                   assert_ok, parsed, inst, encoded, decoded>>

\* The calls a client of the library makes on one input, in any order:
\* mutate of a mutator of all_riscv_mutations() or of reducing_mutations(),
\* and the operations of ProgramInput.  The stages and the scheduler of
\* sim-fuzzer's loop are not part of it.
Next ==
    \/ MutateAdd
    \/ MutateReplace
    \/ MutateReplaceArg
    \/ MutateRepeatSeveral
    \/ MutateSwapTwo
    \/ MutateRemove
    \/ MutateReplaceWithNop
    \/ MutateSnippet
    \/ TargetBytes
    \/ Serialize
    \/ Deserialize

Spec == Init /\ [][Next]_vars

\* ------------------------------------- the encoder and decoder on their own

\* The values of an operand of `length` bits the round trip is checked on.
FieldValues(bits) ==
    (0..(Min(ValBound, 2 ^ bits) - 1))
        \cup (Max(0, (2 ^ bits) - ValBound)..((2 ^ bits) - 1))

\* The argument lists for operands i.. of ops, one in-range value each.
RECURSIVE InRangeArguments(_, _)
InRangeArguments(ops, i) ==
    IF i > Len(ops) THEN {<<>>}
    ELSE {<<Argument_new(ops[i], Bits(v))>> \o rest :
            v \in FieldValues(length(ops[i])),
            rest \in InRangeArguments(ops, i + 1)}

CodecInit ==
    /\ \E t \in Range(all) :
         inst \in {Instruction_new(t, args) :
                      args \in InRangeArguments(operands(t), 1)}
    /\ encoded = {} /\ decoded = None
    /\ program = <<>> /\ old_program = <<>>
    /\ mutation = "None" /\ result = "None" /\ steps = 0
    /\ io = "none" /\ data = <<>> /\ assert_ok = TRUE
    /\ loaded = NotLoaded /\ parsed = Ok(<<>>)
    /\ call_args = <<>> /\ call_ret = <<>>
    /\ generator = InstGenerator_new
    /\ stage = NoStage

Encode ==
    /\ io = "none"
    /\ encoded' = Instruction_encode(inst)
    /\ io' = "encode"
    /\ UNCHANGED <<call_args, call_ret, generator, stage>>
    /\ UNCHANGED <<program, old_program, mutation, result, steps, data,
                   assert_ok, loaded, parsed, inst, decoded>>

Decode ==
    /\ io = "encode"
    /\ decoded' = decode(inst.template, encoded)
    /\ io' = "decode"
    /\ UNCHANGED <<call_args, call_ret, generator, stage>>
    /\ UNCHANGED <<program, old_program, mutation, result, steps, data,
                   assert_ok, loaded, parsed, inst, encoded>>

SpecCodec == CodecInit /\ [][Encode \/ Decode]_vars

\* Instruction::set_arg(new_arg) on the instruction, for an operand of its
\* template and an in-range value; call_args keeps the instruction as it
\* was and new_arg.
SetArg ==
    /\ io = "none" /\ steps < MaxSteps
    /\ \E k \in 1..Len(operands(inst.template)) :
          \E v \in FieldValues(length(operands(inst.template)[k])) :
             LET new_arg ==
                     Argument_new(operands(inst.template)[k], Bits(v))
             IN  /\ call_args' = <<inst, new_arg>>
                 /\ inst' = set_arg(inst, new_arg)
    /\ steps' = steps + 1
    /\ UNCHANGED <<program, old_program, mutation, result, io, data,
                   assert_ok, loaded, parsed, encoded, decoded, call_ret,
                   generator, stage>>

SpecSetArg == CodecInit /\ [][SetArg \/ Encode \/ Decode]_vars

\* ------------------------------- the assembler and the parser on their own

ParseInit ==
    /\ program = <<>>
    /\ old_program = <<>>
    /\ Idle

\* The Rands of the round trip: the first value is any index of riscv_g;
\* then for each operand a value that hits or misses the reuse chance, one
\* that hits or misses the power-of-two chance (or chooses the first known
\* argument), and a small or a large value.
ParseRngs ==
    {Rand_with(<<t>> \o operand \o operand \o operand \o operand \o operand) :
        t \in 0..(Len(riscv_g) - 1),
        operand \in {<<reuse, power, v>> :
                        reuse \in {0, 99}, power \in {0, 99},
                        v \in {1, 2 ^ 20 - 2}}}

\* One round of the loop of tests::assemble_and_parse_random_instructions.
\* The generator knows no arguments, as in that test, or was forwarded the
\* arguments of the program so far, as gen_inst does.
Generate ==
    /\ io = "none"
    /\ Len(program) < MaxParseLen
    /\ \E known \in {<<>>, program}, rand \in ParseRngs :
         \E generated \in {generate_instruction(
                forward_all(InstGenerator_new, known, 1), rand, riscv_g)} :
            program' = Append(program, generated.inst)
    /\ UNCHANGED <<call_args, call_ret, generator, stage>>
    /\ UNCHANGED <<old_program, mutation, result, steps, io, data, assert_ok,
                   loaded, parsed, inst, encoded, decoded>>

Assemble ==
    /\ io = "none"
    /\ data' = assemble_instructions(program)
    /\ io' = "assemble"
    /\ UNCHANGED <<call_args, call_ret, generator, stage>>
    /\ UNCHANGED <<program, old_program, mutation, result, steps, assert_ok,
                   loaded, parsed, inst, encoded, decoded>>

Parse ==
    /\ io = "assemble"
    /\ parsed' = parse_instructions(data, riscv_g)
    /\ io' = "parse"
    /\ UNCHANGED <<call_args, call_ret, generator, stage>>
    /\ UNCHANGED <<program, old_program, mutation, result, steps, data,
                   assert_ok, loaded, inst, encoded, decoded>>

SpecParse == ParseInit /\ [][Generate \/ Assemble \/ Parse]_vars

\* --------------------------------------- one mutation of a generated program

\* The instructions the fuzzer writes without its generator: the nop of the
\* seed and of ReplaceWithNop, and the instructions of the snippets.
FixedInstructions ==
    {nop} \cup UNION {Range(make_snippet(rng).snippet) : rng \in Rngs}

\* The programs of at most n of these instructions.
RECURSIVE InputPrograms(_)
InputPrograms(n) ==
    IF n = 0 THEN {<<>>}
    ELSE InputPrograms(n - 1)
         \cup {Append(p, i) :
                 p \in {q \in InputPrograms(n - 1) : Len(q) = n - 1},
                 i \in FixedInstructions}

RepeatInit ==
    /\ program \in InputPrograms(MaxInputLen)
    /\ old_program = program
    /\ Idle

\* Mutator::mutate of a RiscVInstructionMutator::new(RepeatSeveral), with no
\* limit on the length of the result.
RepeatSeveral ==
    /\ steps = 0
    /\ \E rng \in Rngs :
          \E out \in {mutate_impl(program, rng, "RepeatSeveral")} :
              /\ out.returned
              /\ program' = out.program
              /\ result' = out.result
    /\ old_program' = program
    /\ mutation' = "RepeatSeveral"
    /\ steps' = 1
    /\ UNCHANGED <<call_args, call_ret, generator, stage>>
    /\ UNCHANGED <<io, data, assert_ok, loaded, parsed, inst, encoded, decoded>>

SpecRepeat == RepeatInit /\ [][RepeatSeveral]_vars

\* ------------------------------------------------- the reducing mutators

\* Mutator::mutate of one mutator of reducing_mutations() on the input.
Reduce ==
    /\ steps < MaxReduce
    /\ \E i \in 1..Len(reducing_mutations), rng \in Rngs :
          \E out \in {mutate_impl(program, rng, reducing_mutations[i])} :
              Mutated(reducing_mutations[i], out)

SpecReduce == RepeatInit /\ [][Reduce]_vars

\* ------------------------------------------ the parser on arbitrary bytes

\* A buffer as tests::parse_random_bytes builds it, or as a corpus file
\* holds it, of the byte values 0x00, 0x13 and 0xff: with them a word is an
\* addi, or matches no template.
BytesInit ==
    /\ data \in UNION {[1..n -> {0, 19, 255}] : n \in 0..MaxBytes}
    /\ program = <<>> /\ old_program = <<>>
    /\ mutation = "None" /\ result = "None" /\ steps = 0
    /\ io = "none" /\ assert_ok = TRUE
    /\ loaded = NotLoaded /\ parsed = Ok(<<>>)
    /\ inst = nop /\ encoded = {} /\ decoded = None
    /\ call_args = <<>> /\ call_ret = <<>>
    /\ generator = InstGenerator_new
    /\ stage = NoStage

\* parse_instructions(&input, &riscv_g())
ParseBytes ==
    /\ io = "none"
    /\ parsed' = parse_instructions(data, riscv_g)
    /\ io' = "parse"
    /\ UNCHANGED <<call_args, call_ret, generator, stage>>
    /\ UNCHANGED <<program, old_program, mutation, result, steps, data,
                   assert_ok, loaded, inst, encoded, decoded>>

\* The buffer is deserialized as a ProgramInput.
LoadBytes ==
    /\ io = "none"
    /\ loaded' = deserialize(data)
    /\ io' = "deserialize"
    /\ UNCHANGED <<call_args, call_ret, generator, stage>>
    /\ UNCHANGED <<program, old_program, mutation, result, steps, data,
                   assert_ok, parsed, inst, encoded, decoded>>

SpecBytes == BytesInit /\ [][ParseBytes \/ LoadBytes]_vars

\* The template lists parse_instructions is passed: the sets of the
\* library, and lists that hold a caller's templates before or after the
\* table's.
TemplateLists ==
    {riscv_g, all, riscv_base,
     <<"op_imm">> \o riscv_g, riscv_g \o <<"op_imm">>,
     <<"op_imm_0", "addi", "op_imm">>, <<"op_imm", "op_imm_0", "slli">>,
     <<"slli", "op_imm_0">>}

\* parse_instructions(&input, &insts) for a template list insts.
ParseWith ==
    /\ io = "none"
    /\ \E insts \in TemplateLists :
          /\ call_args' = <<insts>>
          /\ parsed' = parse_instructions(data, insts)
    /\ io' = "parse_with"
    /\ UNCHANGED <<program, old_program, mutation, result, steps, data,
                   assert_ok, loaded, inst, encoded, decoded, call_ret,
                   generator, stage>>

SpecFirst == BytesInit /\ [][ParseWith]_vars

\* ----------------------------------------------------- crop on its own

CropInit ==
    /\ program \in InputPrograms(MaxInputLen)
    /\ old_program = program
    /\ Idle

\* ProgramInput::crop(from, to) on the input.
Crop ==
    /\ io = "none"
    /\ \E from \in 0..(MaxInputLen + 1), to \in 0..(MaxInputLen + 1) :
          /\ call_args' = <<from, to>>
          /\ call_ret' = crop(program, from, to)
    /\ io' = "crop"
    /\ UNCHANGED <<program, old_program, mutation, result, steps, data,
                   assert_ok, loaded, parsed, inst, encoded, decoded,
                   generator, stage>>

SpecCrop == CropInit /\ [][Crop]_vars

\* -------------------------------------------- generate_name on its own

NameInit ==
    /\ program \in InputPrograms(MaxInputLen)
    /\ old_program = program
    /\ Idle

\* Input::generate_name(idx) on the input; call_args and call_ret collect
\* the index and the name of every call.
GenerateName ==
    /\ steps < MaxCalls
    /\ \E idx \in 0..MaxIdx :
          /\ call_args' = Append(call_args, idx)
          /\ call_ret' = Append(call_ret, generate_name(program, idx))
    /\ steps' = steps + 1
    /\ io' = "generate_name"
    /\ UNCHANGED <<program, old_program, mutation, result, data,
                   assert_ok, loaded, parsed, inst, encoded, decoded,
                   generator, stage>>

SpecName == NameInit /\ [][GenerateName]_vars

\* ------------------------------------------------- extract on its own

\* ArgumentSpec::extract(word) and max_value() of an operand spec of the
\* table or of a caller.  Where 2u32.pow(length) overflows, a build with
\* overflow checks panics and a build without them goes on with the
\* wrapped product.
Extract ==
    /\ io = "none"
    /\ \E spec \in DOMAIN SpecTable,
         word \in SUBSET {0, 6, 7, 11, 12, 19, 20, 26, 30, 31} :
          /\ call_args' = <<spec, word>>
          /\ call_ret' \in
                {[panic |-> FALSE, overflow |-> pow(length(spec)).overflow,
                  arg |-> Some(extract(spec, word)),
                  max_value |-> Some(max_value(spec))]}
                \cup (IF pow(length(spec)).overflow
                      THEN {[panic |-> TRUE, overflow |-> TRUE,
                             arg |-> None, max_value |-> None]}
                      ELSE {})
    /\ io' = "extract"
    /\ UNCHANGED <<program, old_program, mutation, result, steps, data,
                   assert_ok, loaded, parsed, inst, encoded, decoded,
                   generator, stage>>

SpecExtract == ParseInit /\ [][Extract]_vars

\* ------------------------------------------ the retry loops of mutate_with

\* Programs the loops are run on: empty, or of instructions with no
\* operand, with 3-bit and 5-bit operands, and with 1-bit operands set and
\* clear.
LoopPrograms ==
    {<<>>, <<Instruction_new("ecall", <<>>)>>,
     <<Instruction_new("fcvt_l_s",
           <<Argument_new("rd", Bits(31)), Argument_new("rs1", Bits(0)),
             Argument_new("rm", Bits(7))>>)>>,
     <<Instruction_new("lr_d",
           <<Argument_new("rd", Bits(1)), Argument_new("rs1", Bits(2)),
             Argument_new("aq", Bits(1)), Argument_new("rl", Bits(0))>>)>>,
     <<Instruction_new("slli",
           <<Argument_new("rd", Bits(0)), Argument_new("rs1", Bits(0)),
             Argument_new("shamtd", Bits(0))>>),
       Instruction_new("lr_d",
           <<Argument_new("rd", Bits(0)), Argument_new("rs1", Bits(0)),
             Argument_new("aq", Bits(0)), Argument_new("rl", Bits(1))>>)>>}

LoopInit ==
    /\ program \in LoopPrograms
    /\ old_program = program
    /\ Idle

\* The Rands the loops are run with: those of the mutate calls, and for
\* the argument drawn in a round of ReplaceArg every value of an operand of
\* at most 5 bits, as a power of two or as such.
LoopRngs ==
    Rngs \cup {Rand_with(<<99, chance, v>>) : chance \in {0, 99}, v \in 0..31}

\* A faulty loop body that only ever draws powers of two.
retry_argument_power(rng, arg_spec) ==
    Argument_new(arg_spec,
                 Shl(Bits(1), below(drawn(rng, 2), length(arg_spec))))

\* The loop body of Mutation::ReplaceArg:
\* InstGenerator::new().generate_argument(rng, arg_spec)
retry_argument(rng, arg_spec) ==
    generate_argument(InstGenerator_new, rng, arg_spec).value

\* mutate_impl is entered.  Replace on a non-empty program and ReplaceArg on
\* an instruction with arguments reach their loop, ReplaceArg with pos and
\* old_arg drawn; every other call returns at once.
Enter ==
    /\ io = "none"
    /\ \E m \in Mutation, rng \in LoopRngs :
          /\ mutation' = m
          /\ \/ /\ m = "Replace" /\ program /= <<>>
                /\ io' = "loop"
                /\ UNCHANGED <<program, result, call_args>>
             \/ /\ m = "ReplaceArg" /\ program /= <<>>
                /\ \E at \in {valid_pos(program, rng)} :
                     /\ program[at.pos[1] + 1].arguments /= <<>>
                     /\ call_args' =
                          <<at.pos[1],
                            program[at.pos[1] + 1].arguments[
                                below(at.rng,
                                      Len(program[at.pos[1] + 1].arguments))
                                    + 1]>>
                /\ io' = "loop"
                /\ UNCHANGED <<program, result>>
             \/ /\ \E out \in {mutate_impl(program, rng, m)} :
                     /\ out.returned
                     /\ m = "Replace" => out.result = "Skipped"
                     /\ m = "ReplaceArg" => out.result = "Skipped"
                     /\ program' = out.program
                     /\ result' = out.result
                /\ io' = "returned"
                /\ UNCHANGED call_args
    /\ UNCHANGED <<old_program, steps, data, assert_ok, loaded, parsed, inst,
                   encoded, decoded, call_ret, generator, stage>>

\* A round of the loop that drew what was there already: Replace goes
\* round again, ReplaceArg continues.
Retry ==
    /\ io = "loop"
    /\ \E rng \in LoopRngs :
          \/ /\ mutation = "Replace"
             /\ \E at \in {valid_pos(program, rng)} :
                   ~(gen_inst(program, at.rng).inst
                        /= program[at.pos[1] + 1])
          \/ /\ mutation = "ReplaceArg"
             /\ \E new_arg \in {retry_argument(rng, call_args[2].spec)} :
                   new_arg = call_args[2]
    /\ steps' = Min(steps + 1, MaxTries)
    /\ UNCHANGED <<program, old_program, mutation, result, io, data,
                   assert_ok, loaded, parsed, inst, encoded, decoded,
                   call_args, call_ret, generator, stage>>

\* A round of the loop that drew something new: the program is changed and
\* the call returns Mutated.
Break ==
    /\ io = "loop"
    /\ \E rng \in LoopRngs :
          \/ /\ mutation = "Replace"
             /\ \E at \in {valid_pos(program, rng)} :
                  \E new_inst \in {gen_inst(program, at.rng).inst} :
                     /\ new_inst /= program[at.pos[1] + 1]
                     /\ program' = [program EXCEPT ![at.pos[1] + 1] = new_inst]
          \/ /\ mutation = "ReplaceArg"
             /\ \E new_arg \in {retry_argument(rng, call_args[2].spec)} :
                   /\ ~(new_arg = call_args[2])
                   /\ program' = [program EXCEPT ![call_args[1] + 1] =
                                     set_arg(program[call_args[1] + 1],
                                             new_arg)]
    /\ result' = "Mutated"
    /\ io' = "returned"
    /\ UNCHANGED <<old_program, mutation, steps, data, assert_ok, loaded,
                   parsed, inst, encoded, decoded, call_args, call_ret,
                   generator, stage>>

\* The rng is fair: a loop whose exit stays possible is not kept from it
\* for ever.
SpecLoop ==
    LoopInit /\ [][Enter \/ Retry \/ Break]_vars /\ WF_vars(Break)

\* ---------------------------------------- the generator on its own

\* Arguments a caller forwards: Argument::new takes any u32, so values in
\* and out of the operand's range, of operands of several widths.  The
\* value 35 for rd is the one the generator's own test forwards.
ForwardedArguments ==
    {Argument_new("rd", Bits(1)), Argument_new("rd", Bits(31)),
     Argument_new("rd", Bits(35)), Argument_new("rs1", Bits(3)),
     Argument_new("imm12", Bits(4095)), Argument_new("rm", Bits(7))}

GenInit ==
    /\ program = <<>>
    /\ old_program = program
    /\ Idle

\* InstGenerator::forward_args(&[a])
ForwardArgs ==
    /\ io /= "generate_argument"
    /\ Len(generator.known_args) < MaxKnown
    /\ \E a \in ForwardedArguments :
          generator' = forward_args(generator, <<a>>)
    /\ io' = "forward_args"
    /\ UNCHANGED <<program, old_program, mutation, result, steps, data,
                   assert_ok, loaded, parsed, inst, encoded, decoded,
                   call_args, call_ret, stage>>

\* The Rands the generator is run with on its own: the reuse draw hits or
\* misses, the second value chooses a known argument, or hits or misses
\* the power-of-two chance, and the third is any value of MaxDrawBits bits.
GenRngs ==
    {Rand_with(<<reuse, second, v>>) :
        reuse \in {0, 99}, second \in (0..(MaxKnown - 1)) \cup {99},
        v \in 0..(2 ^ MaxDrawBits - 1)}

\* InstGenerator::generate_argument(rand, arg), for every operand of the
\* table of at most MaxDrawBits bits, once the caller has forwarded what it
\* forwards.
GenerateArgument ==
    /\ io /= "generate_argument"
    /\ \E arg \in {spec.name : spec \in
                       {x \in AllSpecs : x.length <= MaxDrawBits}} :
          \E rand \in GenRngs :
              /\ call_args' = <<arg>>
              /\ call_ret' = generate_argument(generator, rand, arg).value
    /\ io' = "generate_argument"
    /\ UNCHANGED <<program, old_program, mutation, result, steps, data,
                   assert_ok, loaded, parsed, inst, encoded, decoded,
                   generator, stage>>

SpecGen == GenInit /\ [][ForwardArgs \/ GenerateArgument]_vars

\* ------------------------------------------------- bin/inst-assembler.rs
\*
\* Strings are sequences of characters.

\* The operand names and the mnemonics of the table, as the characters of
\* a line.
name_chars ==
    [rd |-> <<"r", "d">>, rs1 |-> <<"r", "s", "1">>,
     rs2 |-> <<"r", "s", "2">>, rs3 |-> <<"r", "s", "3">>,
     imm12 |-> <<"i", "m", "m", "1", "2">>,
     imm20 |-> <<"i", "m", "m", "2", "0">>,
     shamtd |-> <<"s", "h", "a", "m", "t", "d">>,
     rm |-> <<"r", "m">>, aq |-> <<"a", "q">>, rl |-> <<"r", "l">>,
     auipc |-> <<"a", "u", "i", "p", "c">>, jalr |-> <<"j", "a", "l", "r">>,
     addi |-> <<"a", "d", "d", "i">>, ecall |-> <<"e", "c", "a", "l", "l">>,
     mul |-> <<"m", "u", "l">>, mulw |-> <<"m", "u", "l", "w">>,
     slli |-> <<"s", "l", "l", "i">>,
     amoadd_w |-> <<"a", "m", "o", "a", "d", "d", ".", "w">>,
     lr_d |-> <<"l", "r", ".", "d">>,
     fadd_s |-> <<"f", "a", "d", "d", ".", "s">>,
     fmadd_d |-> <<"f", "m", "a", "d", "d", ".", "d">>,
     fcvt_l_s |-> <<"f", "c", "v", "t", ".", "l", ".", "s">>,
     fmv_x_d |-> <<"f", "m", "v", ".", "x", ".", "d">>]

\* char::is_whitespace: the characters with the Unicode property
\* White_Space.  A character that a string here cannot hold as it is
\* (U+000B and those outside ASCII) is written as Rust escapes it.
is_whitespace(ch) ==
    ch \in {"\t", "\n", "\\u{b}", "\f", "\r", " ", "\\u{85}", "\\u{a0}",
            "\\u{1680}", "\\u{2000}", "\\u{2001}", "\\u{2002}", "\\u{2003}",
            "\\u{2004}", "\\u{2005}", "\\u{2006}", "\\u{2007}", "\\u{2008}",
            "\\u{2009}", "\\u{200a}", "\\u{2028}", "\\u{2029}", "\\u{202f}",
            "\\u{205f}", "\\u{3000}"}

\* str::trim: without the whitespace at either end.
RECURSIVE trim(_)
trim(str) ==
    IF str /= <<>> /\ is_whitespace(Head(str))
    THEN trim(Tail(str))
    ELSE IF str /= <<>> /\ is_whitespace(str[Len(str)])
    THEN trim(SubSeq(str, 1, Len(str) - 1))
    ELSE str

\* str::split on a one-character separator: the parts between one
\* separator and the next, in order.
split(str, sep) ==
    LET at == {i \in 1..Len(str) : str[i] = sep}
        Nth(k) == IF k = 0 THEN 0
                  ELSE IF k > Cardinality(at) THEN Len(str) + 1
                  ELSE CHOOSE i \in at : Cardinality({j \in at : j < i}) = k - 1
    IN  [k \in 1..(Cardinality(at) + 1) |->
            SubSeq(str, Nth(k - 1) + 1, Nth(k) - 1)]

\* str::starts_with and str::trim_start_matches
starts_with(str, prefix) ==
    Len(str) >= Len(prefix) /\ SubSeq(str, 1, Len(prefix)) = prefix
RECURSIVE trim_start_matches(_, _)
trim_start_matches(str, prefix) ==
    IF starts_with(str, prefix)
    THEN trim_start_matches(SubSeq(str, Len(prefix) + 1, Len(str)), prefix)
    ELSE str

\* char::to_digit(radix): digits in either case, None for anything else.
to_digit(ch, radix) ==
    LET UpperDigits == <<"A", "B", "C", "D", "E", "F">>
        found == {d \in 0..15 : HexDigits[d + 1] = ch}
                    \cup {d \in 10..15 : UpperDigits[d - 9] = ch}
    IN  IF \E d \in found : d < radix
        THEN Some(CHOOSE d \in found : d < radix) ELSE None

\* The digits read as a u32, most significant first, on top of acc: the
\* number in two halves of 16 bits <<high, low>>, or None when it passes
\* u32::MAX.
RECURSIVE digits_value(_, _, _)
digits_value(digits, radix, acc) ==
    IF digits = <<>> THEN Some(acc)
    ELSE LET low == acc[2] * radix + to_digit(Head(digits), radix)[1]
             high == acc[1] * radix + low \div 65536
         IN  IF high >= 65536 THEN None
             ELSE digits_value(Tail(digits), radix, <<high, low % 65536>>)

\* u32::from_str_radix as an Option: None for the empty string, a lone
\* sign, a character that is no digit of the radix or a number above
\* u32::MAX; one leading "+" is allowed.  The u32 is the set of its set
\* bits.
from_str_radix(src, radix) ==
    LET digits == IF src /= <<>> /\ Head(src) = "+" THEN Tail(src) ELSE src
    IN  IF \/ digits = <<>>
           \/ \E i \in 1..Len(digits) : to_digit(digits[i], radix) = None
        THEN None
        ELSE IF digits_value(digits, radix, <<0, 0>>) = None THEN None
        ELSE Some({k + 16 : k \in BitsOf(
                                digits_value(digits, radix, <<0, 0>>)[1][1],
                                16)}
                  \cup BitsOf(digits_value(digits, radix, <<0, 0>>)[1][2],
                              16))

\* InstructionTemplate::op_with_name
op_with_name(template, name) ==
    LET ops == operands(template)
        found == {i \in 1..Len(ops) : name_chars[ops[i]] = name}
    IN  IF found = {} THEN None
        ELSE Some(ops[CHOOSE i \in found : \A j \in found : i <= j])

\* parse_arg; an error is the fixed head of its message.
parse_arg(template, arg_str) ==
    LET parts == split(trim(arg_str), "=")
    IN  IF Len(parts) /= 2 THEN Err("Not in ARG=VALUE format", {})
        ELSE
        LET name == parts[1]
            value_str == parts[2]
            spec_or_none == op_with_name(template, name)
        IN  IF value_str = <<>> THEN Err("Missing value in arg", {})
            ELSE IF spec_or_none = None
            THEN Err("Failed to find operand with name", {})
            ELSE
            LET spec == spec_or_none[1]
                is_hex == starts_with(value_str, <<"0", "x">>)
                radix == IF is_hex THEN 16 ELSE 10
                value_or_err ==
                    from_str_radix(
                        trim_start_matches(value_str, <<"0", "x">>), radix)
            IN  IF value_or_err = None
                THEN Err("Invalid decimal or hex value", {})
                ELSE IF lt(max_value(spec), value_or_err[1])
                THEN Err("Too large value", {})
                ELSE Ok(Argument_new(spec, value_or_err[1]))

\* The operand values around the limit of every operand width, and their
\* spellings in a line.
EdgeValues ==
    {0} \cup UNION {{2 ^ spec.length - 1, 2 ^ spec.length,
                     2 ^ spec.length + 1} : spec \in AllSpecs}

RECURSIVE format_x(_)
format_x(n) ==
    IF n < 16 THEN <<HexDigits[n + 1]>>
    ELSE Append(format_x(n \div 16), HexDigits[(n % 16) + 1])

\* The ARG=VALUE strings of a line: operand names of the table and names
\* that are none, with the edge values in decimal and in hex, values that
\* are no number, and strings of another shape.
ArgStrings ==
    LET ArgNames ==
            {name_chars[n] : n \in {"rd", "rs1", "imm12", "rm", "aq"}}
                \cup {<<"x", "x">>, <<>>}
        ArgValues ==
            {format_decimal(v) : v \in EdgeValues}
                \cup {<<"0", "x">> \o format_x(v) : v \in EdgeValues}
                \cup {<<"4", "2", "9", "4", "9", "6", "7", "2", "9", "5">>,
                      <<"4", "2", "9", "4", "9", "6", "7", "2", "9", "6">>,
                      <<"0", "x", "8", "0", "0", "0", "0", "0", "0", "0">>,
                      <<"0", "x", "1", "0", "0", "0", "0", "0", "0", "0",
                        "0">>}
                \cup {<<>>, <<"0", "x">>, <<"z", "z">>, <<"+", "5">>,
                      <<"-", "5">>, <<"1", "F">>, <<"0", "x", "1", "F">>,
                      <<"0", "x", "0", "x", "3">>}
    IN  {n \o <<"=">> \o v : n \in ArgNames, v \in ArgValues}
            \cup {<<" ">> \o n \o <<"=">> \o v \o <<" ">> :
                      n \in ArgNames, v \in {<<"3">>, <<>>}}
            \cup {<<before>> \o n \o <<"=", "3", after>> :
                      n \in ArgNames,
                      before \in {"\n", "\\u{a0}"},
                      after \in {"\t", "\r", "\f", "\\u{b}", "\\u{2028}"}}
            \cup {n \o <<"=", "3", "\r", "3">> : n \in ArgNames}
            \cup {n \o <<"=">> \o v \o <<"=">> \o v :
                      n \in ArgNames, v \in {<<"3">>}}
            \cup ArgNames

AsmInit ==
    /\ program = <<>>
    /\ old_program = program
    /\ Idle

\* parse_arg(inst, arg_str) for a template of all() and an argument of a
\* line, once per run of the assembler's line.
ParseArg ==
    /\ io = "none"
    /\ \E template \in Range(all), arg_str \in ArgStrings :
          /\ call_args' = <<template, arg_str>>
          /\ call_ret' = parse_arg(template, arg_str)
    /\ io' = "parse_arg"
    /\ UNCHANGED <<program, old_program, mutation, result, steps, data,
                   assert_ok, loaded, parsed, inst, encoded, decoded,
                   generator, stage>>

SpecAsm == AsmInit /\ [][ParseArg]_vars

\* The loop of parse_inst over the parts that are not empty, and what
\* follows it.  The loop returns at the first part, in the order of the
\* line, that parse_arg rejects or that names an operand seen before;
\* otherwise it pushes the arguments in the order of the line.  With each
\* result goes what the debug assertions of Instruction::new evaluate to
\* when the call reaches them.  A local of the code is the one element of
\* a set, bound once.
parse_inst_args(template, given) ==
    CHOOSE returned \in
        {LET Failed(err) == [ret |-> Err(err, {}), debug_assert |-> TRUE]
             Duplicate(i) ==
                 \E j \in 1..(i - 1) :
                     /\ results[j].ok
                     /\ results[j].value.spec = results[i].value.spec
             stops == {i \in 1..Len(results) :
                         ~results[i].ok \/ Duplicate(i)}
             seen_ops == {results[i].value.spec : i \in 1..Len(results)}
         IN  IF \E i \in stops : ~results[i].ok /\ \A j \in stops : i <= j
             THEN Failed("Failed to parse")
             ELSE IF stops /= {} THEN Failed("Duplicate operand")
             ELSE IF Cardinality(seen_ops) /= Len(operands(template))
             THEN Failed("Missing operands in instruction")
             ELSE CHOOSE built \in
                     {[ret |-> Ok(new),
                       debug_assert |-> Instruction_new_asserts(new)] :
                         new \in {Instruction_new(template,
                                     [i \in 1..Len(results) |->
                                         results[i].value])}} : TRUE :
            results \in {[i \in 1..Len(given) |->
                            parse_arg(template, given[i])]}} : TRUE

\* parse_inst: the comment is cut off, the rest trimmed and split at the
\* spaces; find_template looks the first part up in all().
parse_inst(line) ==
    CHOOSE returned \in
        {CHOOSE named \in
            {IF found = {}
             THEN [ret |-> Err("Could not find instruction", {}),
                   debug_assert |-> TRUE]
             ELSE parse_inst_args(
                      all[CHOOSE i \in found : \A j \in found : i <= j],
                      SelectSeq(Tail(parts),
                                LAMBDA arg_str : trim(arg_str) /= <<>>)) :
                found \in {{i \in 1..Len(all) :
                              /\ all[i] \in DOMAIN name_chars
                              /\ name_chars[all[i]] = parts[1]}}} : TRUE :
            parts \in {split(trim(split(line, "#")[1]), " ")}} : TRUE

\* Lines of the assembler's input: a mnemonic and up to four NAME=0xVALUE
\* arguments for operands of its template, in every order, with operands
\* repeated or left out; some with a comment, more spaces or a mnemonic
\* that is none; and for every template of all() the line with its
\* operands in the declared order.
AsmLines ==
    LET Mnemonics == {"addi", "fmv_x_d", "ecall"}
        Tok(op, v) == IF op = "" THEN <<>>
                      ELSE <<" ">> \o name_chars[op] \o <<"=", "0", "x">>
                               \o format_x(v)
        Ops(t) == Range(operands(t)) \cup {""}
        plain == UNION {{name_chars[t] \o Tok(a, v) \o Tok(b, v)
                              \o Tok(c, v) \o Tok(d, v) :
                            a \in Ops(t), b \in Ops(t), c \in Ops(t),
                            d \in Ops(t), v \in {1, 3}} :
                        t \in Mnemonics}
    IN  plain
          \cup {l \o <<" ", "#", " ", "r", "d", "=", "1">> :
                  l \in {p \in plain : Len(p) <= 12}}
          \cup {<<" ">> \o name_chars[t] \o <<" ">> \o Tok("rd", 1)
                    \o <<" ">> \o Tok("rs1", 1) \o <<" ">> :
                  t \in {"fmv_x_d"}}
          \cup {name_chars[t] \o Tok("rd", 1) \o <<" ", between>>
                    \o Tok("rs1", 1) \o <<after>> :
                  t \in {"fmv_x_d"}, between \in {"\t", "\r", "\\u{3000}"},
                  after \in {"\t", "\r", "\f"}}
          \cup {<<"e", "c", "a", "l", "l", between, "r", "d", "=", "1">> :
                  between \in {"\t", "\r"}}
          \cup {name_chars[t]
                    \o Tok(IF Len(operands(t)) >= 1 THEN operands(t)[1]
                           ELSE "", 1)
                    \o Tok(IF Len(operands(t)) >= 2 THEN operands(t)[2]
                           ELSE "", 1)
                    \o Tok(IF Len(operands(t)) >= 3 THEN operands(t)[3]
                           ELSE "", 1)
                    \o Tok(IF Len(operands(t)) >= 4 THEN operands(t)[4]
                           ELSE "", 1)
                    \o Tok(IF Len(operands(t)) >= 5 THEN operands(t)[5]
                           ELSE "", 1) :
                  t \in Range(all)}
          \cup {<<"a", "d", "d">>, <<>>}

\* parse_inst(line) for a line of the assembler's input.  A failed debug
\* assertion is a panic in a build with debug assertions and has no effect
\* in a build without.
ParseInst ==
    /\ io = "none"
    /\ \E line \in AsmLines :
          \E returned \in {parse_inst(line)} :
              /\ call_args' = <<line>>
              /\ call_ret' \in
                    {[panic |-> FALSE, ret |-> returned.ret]}
                        \cup IF returned.debug_assert THEN {}
                             ELSE {[panic |-> TRUE, ret |-> <<>>]}
    /\ io' = "parse_inst"
    /\ UNCHANGED <<program, old_program, mutation, result, steps, data,
                   assert_ok, loaded, parsed, inst, encoded, decoded,
                   generator, stage>>

SpecInst == AsmInit /\ [][ParseInst]_vars

\* ------------------------------------------------------- calibration.rs

\* DummyCalibration::perform on the state and executor of `stage`, for the
\* ExitKind the target returns, the count_bytes of the map observer (a power
\* of two) and the call of the executor, the observers or the manager that
\* fails, if one does: what it leaves and returns.  run_target and log count
\* the calls of executor.run_target and of mgr.log; log2 is libm::log2 on a
\* power of two.  No entry of the corpus is its own parent.
perform(calibration, corpus_idx, exit_kind, bitmap_size, fails) ==
    IF corpus_idx + 1 \notin 1..Len(calibration.corpus)
    THEN [stage |-> calibration, ret |-> Err("key not found", {})]
    ELSE
    LET testcase == calibration.corpus[corpus_idx + 1]
        iter == 1
        log2(n) == CHOOSE k \in 0..30 : 2 ^ k = n
        ran == [calibration EXCEPT !.run_target[corpus_idx + 1] = @ + 1]
        logged == [ran EXCEPT !.log = IF exit_kind /= "Ok" THEN @ + 1 ELSE @]
        total_time == Len(testcase.input) + 1
        psmeta == calibration.scheduler_metadata[1]
        handicap == psmeta.queue_cycles
        counted ==
            [logged EXCEPT
                !.scheduler_metadata =
                    Some([psmeta EXCEPT
                             !.exec_time = @ + total_time,
                             !.cycles = @ + iter,
                             !.bitmap_size = @ + bitmap_size,
                             !.bitmap_size_log = @ + log2(bitmap_size),
                             !.bitmap_entries = @ + 1]),
                !.corpus[corpus_idx + 1] =
                    [testcase EXCEPT
                        !.exec_time = Some(total_time \div iter),
                        !.scheduled_count = @ + 1]]
        parent_id == testcase.parent_id
        depth == IF parent_id = None THEN 0
                 ELSE IF calibration.corpus[parent_id[1] + 1].metadata = None
                 THEN 0
                 ELSE calibration.corpus[parent_id[1] + 1].metadata[1].depth
                        + 1
        testcase_data ==
                IF testcase.metadata /= None THEN testcase.metadata[1]
                ELSE [depth |-> depth, cycle_and_time |-> <<0, 0>>,
                      bitmap_size |-> 0, handicap |-> 0]
    IN  IF testcase.scheduled_count > 0
        THEN [stage |-> calibration, ret |-> Ok(<<>>)]
        ELSE IF fails \in {"load_input", "pre_exec_all"}
        THEN [stage |-> calibration, ret |-> Err(fails, {})]
        ELSE IF fails = "run_target"
        THEN [stage |-> ran, ret |-> Err(fails, {})]
        ELSE IF (fails = "log" /\ exit_kind /= "Ok") \/ fails = "post_exec_all"
        THEN [stage |-> logged, ret |-> Err(fails, {})]
        ELSE IF calibration.scheduler_metadata = None
        THEN [stage |-> logged, ret |-> Ok(<<>>)]
        ELSE IF ~calibration.map_observer
        THEN [stage |-> logged, ret |-> Err("MapObserver not found", {})]
        ELSE IF /\ testcase.metadata = None
                /\ parent_id /= None
                /\ parent_id[1] + 1 \notin 1..Len(calibration.corpus)
        THEN [stage |-> counted, ret |-> Err("key not found", {})]
        ELSE [stage |->
                [counted EXCEPT
                    !.corpus[corpus_idx + 1].metadata =
                        Some([testcase_data EXCEPT
                                 !.cycle_and_time = <<total_time, iter>>,
                                 !.bitmap_size = bitmap_size,
                                 !.handicap = handicap])],
              ret |-> Ok(<<>>)]

\* A corpus of MaxEntries entries never scheduled, each with an input of
\* the fuzzer and with no parent, with another entry as its parent or with
\* a parent that is in the corpus no more; a state with or without the
\* metadata of a power scheduler; an executor with or without the map
\* observer the stage names.
CalibrationInit ==
    /\ \E inputs \in [1..MaxEntries -> {<<>>, <<nop>>}],
          parents \in [1..MaxEntries ->
                          {None} \cup {Some(id) : id \in 0..MaxEntries}],
          with_metadata \in BOOLEAN, map_observer \in BOOLEAN :
          /\ \A i \in 1..MaxEntries : parents[i] /= Some(i - 1)
          /\ stage = [corpus |->
                      [i \in 1..MaxEntries |->
                          [input |-> inputs[i], scheduled_count |-> 0,
                           exec_time |-> None, metadata |-> None,
                           parent_id |-> parents[i]]],
                   scheduler_metadata |->
                      IF with_metadata
                      THEN Some([exec_time |-> 0, cycles |-> 0,
                                 bitmap_size |-> 0, bitmap_size_log |-> 0,
                                 bitmap_entries |-> 0, queue_cycles |-> 0])
                      ELSE None,
                   map_observer |-> map_observer,
                   run_target |-> [i \in 1..MaxEntries |-> 0],
                   log |-> 0]
    /\ program = <<>> /\ old_program = program
    /\ mutation = "None" /\ result = "None" /\ steps = 0
    /\ io = "none" /\ data = <<>> /\ assert_ok = TRUE
    /\ loaded = NotLoaded /\ parsed = Ok(<<>>)
    /\ inst = nop /\ encoded = {} /\ decoded = None
    /\ call_args = <<>> /\ call_ret = <<>>
    /\ generator = InstGenerator_new

\* Stage::perform of the DummyCalibration on a corpus entry, or on an id
\* that is not in the corpus.
Perform ==
    /\ steps < MaxPerform
    /\ \E corpus_idx \in 0..MaxEntries,
          exit_kind \in {"Ok", "Crash"}, bitmap_size \in {1, 2},
          fails \in {"none", "load_input", "pre_exec_all", "run_target",
                     "log", "post_exec_all"} :
          \E out \in {perform(stage, corpus_idx, exit_kind, bitmap_size,
                              fails)} :
              /\ stage' = out.stage
              /\ call_ret' = out.ret
              /\ call_args' = <<corpus_idx>>
    /\ steps' = steps + 1
    /\ io' = "perform"
    /\ UNCHANGED <<program, old_program, mutation, result, data, assert_ok,
                   loaded, parsed, inst, encoded, decoded, generator>>

SpecCalibration == CalibrationInit /\ [][Perform]_vars

\* ------------------------------------------------------------ properties

\* C1: encode round trip.  For every template of all() and every operand
\* assignment in the declared order with each value below 2^length,
\* decoding the encoding with the same template returns Some of the
\* instruction that was encoded.
C1_EncodeRoundTrip ==
    io = "decode" => decoded = Some(inst)

\* A five-operand instruction with every operand at its largest value went
\* through encode and decode.
C1_Witness ==
    /\ io = "decode"
    /\ inst.template = "fmadd_d"
    /\ \A i \in 1..Len(inst.arguments) :
          inst.arguments[i].value
              = 0..(length(inst.arguments[i].spec) - 1)
    /\ decoded = Some(inst)

\* C2: parse round trip.  For every program built by generate_instruction
\* over riscv_g, the empty one included, parsing its assembled bytes with
\* riscv_g returns Ok of the same program: the same templates and the same
\* arguments, instruction by instruction.
C2_ParseRoundTrip ==
    io = "parse" => parsed = Ok(program)

\* A program of two generated instructions, one of them with operands,
\* was assembled and parsed back.
C2_Witness ==
    /\ io = "parse"
    /\ Len(program) = MaxParseLen
    /\ Len(data) = 4 * MaxParseLen
    /\ program[1].arguments /= <<>>
    /\ parsed.ok /\ parsed.value = program

\* C3: mutation well-formedness.  From the empty program or the seed
\* [addi x0,x0,0], after any sequence of mutations and any rng outcomes,
\* every instruction of the program has exactly one argument per operand of
\* its template, in the declared order, each argument's spec equal to the
\* operand at its place and each value below 2^length.
C3_WellFormed ==
    \A i \in 1..Len(program) :
        /\ Instruction_new_asserts(program[i])
        /\ \A k \in 1..Len(program[i].arguments) :
              lt(program[i].arguments[k].value,
                 max_value(program[i].arguments[k].spec))

\* C4: after any sequence of mutations from the empty or the seed program,
\* every word of the assembled program decodes: the debug assertion of
\* target_bytes (parse with all()) holds, and parsing the target bytes with
\* riscv_g succeeds and yields as many instructions as the program has.
C4_TargetBytesDecode ==
    io = "target_bytes" =>
        /\ assert_ok
        /\ Len(data) = 4 * len(program)
        /\ LET reparsed == parse_instructions(data, riscv_g)
           IN  reparsed.ok /\ Len(reparsed.value) = len(program)

\* The target bytes of a three-instruction program were taken after two
\* mutations, the second of which replaced an argument of an instruction.
C4_Witness ==
    /\ io = "target_bytes"
    /\ steps = MaxSteps
    /\ mutation = "ReplaceArg" /\ result = "Mutated"
    /\ Len(program) = MaxLen
    /\ assert_ok

\* C5: serialization round trip.  For every program reachable from the
\* seed by mutations, deserialize(serialize(p)) equals p: the same
\* instructions, each with the same template and the same argument list.
C5_SerializationRoundTrip ==
    io = "deserialize" => ~loaded.panic /\ loaded.insts = program

\* C6: empty-input policy.  On an empty program Remove, Replace,
\* ReplaceArg, SwapTwo, RepeatSeveral and ReplaceWithNop return Skipped,
\* while Add and Snippet return Mutated and leave a non-empty program; these
\* eight are all the mutations there are.
C6_EmptyInputPolicy ==
    /\ Mutation = {"Remove", "Replace", "ReplaceArg", "SwapTwo",
                   "RepeatSeveral", "ReplaceWithNop", "Add", "Snippet"}
    /\ (mutation /= "None" /\ old_program = <<>>) =>
          IF mutation \in {"Add", "Snippet"}
          THEN result = "Mutated" /\ program /= <<>>
          ELSE result = "Skipped"

\* A mutation that needs a position was skipped on the empty program, and
\* the next one was again called on the empty program.
C6_Witness ==
    /\ steps = MaxSteps
    /\ old_program = <<>>
    /\ mutation = "RepeatSeveral" /\ result = "Skipped"
    /\ program = <<>>

\* C6 as the specification states it: RepeatOne is one of the mutations
\* and, with Remove, Replace, ReplaceArg, SwapTwo, RepeatSeveral and
\* ReplaceWithNop, returns Skipped on an empty program, while Add and
\* Snippet return Mutated and leave a non-empty program.
C6_WithRepeatOne ==
    /\ {"Remove", "Replace", "ReplaceArg", "SwapTwo", "RepeatOne",
        "RepeatSeveral", "ReplaceWithNop", "Add", "Snippet"} \subseteq Mutation
    /\ (mutation /= "None" /\ old_program = <<>>) =>
          IF mutation \in {"Add", "Snippet"}
          THEN result = "Mutated" /\ program /= <<>>
          ELSE result = "Skipped"

\* C7: whenever a mutation returns Skipped, on any program and for any rng
\* outcome, the program after the call is the program before the call.
C7_SkippedLeavesProgram ==
    result = "Skipped" => program = old_program

\* ReplaceArg was skipped on a non-empty program: the instruction at the
\* drawn position has no operands.
C7_Witness ==
    /\ result = "Skipped"
    /\ mutation = "ReplaceArg"
    /\ old_program /= <<>>
    /\ program = old_program

\* C8: Add always returns Mutated and grows the program by exactly one
\* instruction: the result is the old program with one instruction inserted
\* at one index, the old instructions kept in their order.
C8_AddGrowsByOne ==
    mutation = "Add" =>
        /\ result = "Mutated"
        /\ Len(program) = Len(old_program) + 1
        /\ \E index \in 0..Len(old_program) :
              remove(program, index) = old_program

\* Add inserted an instruction into a program of two instructions.
C8_Witness ==
    /\ mutation = "Add" /\ result = "Mutated"
    /\ Len(old_program) = 2
    /\ Len(program) = 3

\* C9: Remove on a non-empty program returns Mutated and shrinks it by
\* exactly one instruction: the result is the old program with the
\* instruction at one valid index deleted, the others unchanged and in order.
C9_RemoveShrinksByOne ==
    (mutation = "Remove" /\ old_program /= <<>>) =>
        /\ result = "Mutated"
        /\ Len(program) = Len(old_program) - 1
        /\ \E index \in 0..(Len(old_program) - 1) :
              program = remove(old_program, index)

\* Remove deleted one of the two instructions of a program.
C9_Witness ==
    /\ mutation = "Remove" /\ result = "Mutated"
    /\ Len(old_program) = 2
    /\ Len(program) = 1

\* C10: Replace on a non-empty program, whenever it returns Mutated, leaves
\* the length unchanged and changes exactly one instruction by parsed
\* equality: the parsed old bytes and the parsed new bytes differ at exactly
\* one position, for every program reachable by earlier mutations.
C10_ReplaceChangesOne ==
    (mutation = "Replace" /\ old_program /= <<>> /\ result = "Mutated") =>
        /\ Len(program) = Len(old_program)
        /\ LET changed == update_changed(assemble_instructions(old_program),
                                         assemble_instructions(program))
           IN  ~changed.panic /\ changed.changed_insts = 1

\* The values an instruction holds for the operand spec.
ValuesOf(instruction, spec) ==
    {instruction.arguments[k].value :
        k \in {j \in 1..Len(instruction.arguments) :
                  instruction.arguments[j].spec = spec}}

\* The operands of the template for which old and new hold different values.
ChangedOperands(old, new) ==
    {spec \in Range(operands(old.template)) :
        ValuesOf(old, spec) /= ValuesOf(new, spec)}

\* The positions at which two programs of the same length differ.
ChangedPositions(old, new) ==
    {i \in 1..Len(old) : old[i] /= new[i]}

\* What ReplaceArg is to leave of the program old when the instruction it
\* chose is the one at index pos: with an operand there, Mutated, the length
\* unchanged, that instruction the only one changed, its template and the
\* number of its arguments kept, and exactly one of its operands with one
\* value, different from the old one; with no operand there, Skipped and
\* the program as it was.
ReplaceArgAt(old, pos, out) ==
    IF old[pos + 1].arguments = <<>>
    THEN out.result = "Skipped" /\ out.program = old
    ELSE /\ out.result = "Mutated"
         /\ Len(out.program) = Len(old)
         /\ ChangedPositions(old, out.program) = {pos + 1}
         /\ out.program[pos + 1].template = old[pos + 1].template
         /\ Len(out.program[pos + 1].arguments) = Len(old[pos + 1].arguments)
         /\ Cardinality(ChangedOperands(old[pos + 1],
                                        out.program[pos + 1])) = 1
         /\ \A spec \in ChangedOperands(old[pos + 1], out.program[pos + 1]) :
               /\ Cardinality(ValuesOf(out.program[pos + 1], spec)) = 1
               /\ ValuesOf(out.program[pos + 1], spec)
                     \cap ValuesOf(old[pos + 1], spec) = {}

\* C11: ReplaceArg on a non-empty program returns Mutated when the chosen
\* instruction, the one at valid_pos(rng), has an operand: the length is
\* unchanged, exactly that instruction changes, it keeps its template and as
\* many arguments, and exactly one of its operands gets one value, different
\* from the old one.  It returns Skipped when the chosen instruction has no
\* operands.  This holds of the call that was made, whichever Rand it was
\* made with, and of the call with every other Rand on the same program.
C11_ReplaceArgChangesOneOperand ==
    (mutation = "ReplaceArg" /\ old_program /= <<>>) =>
        /\ \E rng \in Rngs :
              \E out \in {mutate_impl(old_program, rng, "ReplaceArg")} :
                 /\ out.returned
                 /\ out.program = program /\ out.result = result
        /\ \A rng \in Rngs :
              \A out \in {mutate_impl(old_program, rng, "ReplaceArg")} :
                 out.returned =>
                    ReplaceArgAt(old_program,
                                 valid_pos(old_program, rng).pos[1], out)

\* ReplaceArg changed an operand of the second of two instructions, the
\* first of which has no operands: with another position drawn the call on
\* this program is Skipped.
C11_Witness ==
    /\ mutation = "ReplaceArg" /\ result = "Mutated"
    /\ Len(old_program) = 2
    /\ old_program[1].arguments = <<>>
    /\ ChangedPositions(old_program, program) = {2}
    /\ Cardinality(ChangedOperands(old_program[2], program[2])) = 1
    /\ \E rng \in Rngs :
          /\ valid_pos(old_program, rng).pos = Some(0)
          /\ mutate_impl(old_program, rng, "ReplaceArg").result = "Skipped"
          /\ mutate_impl(old_program, rng, "ReplaceArg").returned

\* The program with n more copies of the instruction at index pos, all
\* inserted at that index.
Repeated(old, pos, n) ==
    SubSeq(old, 1, pos) \o [k \in 1..n |-> old[pos + 1]]
        \o SubSeq(old, pos + 1, Len(old))

\* C12: RepeatSeveral on a non-empty program returns Mutated and inserts n
\* copies of the instruction at one position, all at that index, the other
\* instructions keeping their order, where n is any of 1..4: every growth
\* from 1 to 4 is possible and no other.
C12_RepeatSeveralUpToFour ==
    /\ (mutation = "RepeatSeveral" /\ old_program /= <<>>) =>
          /\ result = "Mutated"
          /\ \E pos \in 0..(Len(old_program) - 1), n \in 1..4 :
                program = Repeated(old_program, pos, n)
    /\ program /= <<>> =>
          \A n \in 1..4 :
              \E rng \in Rngs :
                  \E out \in {mutate_with(program, rng, "RepeatSeveral")} :
                      out.ret /= None /\ Len(out.program) = Len(program) + n

\* RepeatSeveral inserted four copies of the second of two instructions.
C12_Witness ==
    /\ mutation = "RepeatSeveral" /\ result = "Mutated"
    /\ Len(old_program) = 2
    /\ old_program[1] /= old_program[2]
    /\ program = Repeated(old_program, 1, 4)

\* C12 as the specification states it: the number of copies is drawn from
\* 1..k with k in [1,32], so every growth from 1 up to 32 is possible.
C12_UpToThirtyTwo ==
    /\ (mutation = "RepeatSeveral" /\ old_program /= <<>>) =>
          /\ result = "Mutated"
          /\ \E pos \in 0..(Len(old_program) - 1), n \in 1..32 :
                program = Repeated(old_program, pos, n)
    /\ program /= <<>> =>
          \A n \in 1..32 :
              \E rng \in Rngs :
                  \E out \in {mutate_with(program, rng, "RepeatSeveral")} :
                      out.ret /= None /\ Len(out.program) = Len(program) + n

\* The two idioms of a snippet as the specification lists them: the call
\* [auipc x2, 0 ; jalr x1, 4*n(x2)] for n in [0,64), and the return
\* [jalr x0, 0(x1)].
SnippetShapes ==
    {<<Instruction_new("auipc",
           <<Argument_new("rd", Bits(2)), Argument_new("imm20", Bits(0))>>),
       Instruction_new("jalr",
           <<Argument_new("rd", Bits(1)), Argument_new("rs1", Bits(2)),
             Argument_new("imm12", Bits(4 * n))>>)>> : n \in 0..63}
    \cup {<<Instruction_new("jalr",
               <<Argument_new("rd", Bits(0)), Argument_new("rs1", Bits(1)),
                 Argument_new("imm12", Bits(0))>>)>>}

\* C13: Snippet always returns Mutated and inserts one of the two idioms,
\* contiguously at one insertion index and in the idiom's order; the
\* program grows by one or two and, on an empty program, the result is
\* exactly one of the two idioms.
C13_SnippetShape ==
    mutation = "Snippet" =>
        /\ result = "Mutated"
        /\ Len(program) - Len(old_program) \in {1, 2}
        /\ \E pos \in 0..Len(old_program), shape \in SnippetShapes :
              program = SubSeq(old_program, 1, pos) \o shape
                          \o SubSeq(old_program, pos + 1, Len(old_program))
        /\ old_program = <<>> => program \in SnippetShapes

\* Snippet inserted the two-instruction call idiom before the instruction
\* of a one-instruction program.
C13_Witness ==
    /\ mutation = "Snippet" /\ result = "Mutated"
    /\ Len(old_program) = 1
    /\ Len(program) = 3
    /\ program[1].template = "auipc" /\ program[2].template = "jalr"
    /\ program[3] = old_program[1]

\* The 32-bit words of a buffer whose length is a multiple of 4.
WordsOf(bytes) ==
    [w \in 1..(Len(bytes) \div 4) |->
        from_ne_bytes(SubSeq(bytes, 4 * w - 3, 4 * w))]

\* C14: parse_instructions returns an error exactly when the byte length is
\* not a multiple of 4 (trailing garbage) or some word matches no template
\* of the set (unknown encoding, naming that word); otherwise it returns Ok
\* with len(bytes)/4 instructions.  An error carries no program.
C14_ParseErrors ==
    io = "parse" =>
        LET garbage == Len(data) % 4 /= 0
            unknown == {w \in 1..(Len(data) \div 4) :
                          \A k \in 1..Len(riscv_g) :
                              ~matches(riscv_g[k], WordsOf(data)[w])}
        IN  /\ parsed.ok <=> (~garbage /\ unknown = {})
            /\ parsed.ok => Len(parsed.value) * 4 = Len(data)
            /\ ~parsed.ok => parsed.value = <<>>
            /\ garbage => parsed.err = "Tailing garbage in instructions"
            /\ (~garbage /\ unknown /= {}) =>
                  /\ parsed.err = "Failed to parse bytes as instruction"
                  /\ \E w \in unknown :
                        /\ parsed.data = WordsOf(data)[w]
                        /\ \A v \in unknown : w <= v

\* A buffer of two words was parsed: the first is an addi, the second
\* matches no template, and the parser returned the unknown-encoding error.
C14_Witness ==
    /\ io = "parse"
    /\ Len(data) = 8
    /\ \E k \in 1..Len(riscv_g) : matches(riscv_g[k], WordsOf(data)[1])
    /\ ~parsed.ok
    /\ parsed.err = "Failed to parse bytes as instruction"
    /\ parsed.data = WordsOf(data)[2]

\* C15: assemble_instructions is total and returns exactly 4 * |program|
\* bytes; the target bytes of a ProgramInput and its serialized form are
\* that byte sequence, and HasLen::len is the number of instructions.
C15_AssembledLength ==
    io \in {"target_bytes", "serialize"} =>
        /\ data = assemble_instructions(program)
        /\ Len(data) = 4 * Len(program)
        /\ \A j \in 1..Len(data) : data[j] \in 0..255
        /\ len(program) * 4 = Len(data)

\* The target bytes of a three-instruction program that holds a call
\* snippet were taken: twelve bytes.
C15_Witness ==
    /\ io = "target_bytes"
    /\ mutation = "Snippet"
    /\ len(program) = 3
    /\ Len(data) = 12

\* C16: crop(from, to) returns Ok of a new program holding exactly the
\* instructions at indices [from, to) in order when from < to <= |program|,
\* and an invalid-argument error otherwise; the original program is
\* unchanged and the call never aborts.
C16_Crop ==
    io = "crop" =>
        LET from == call_args[1]
            to == call_args[2]
        IN  /\ call_ret.kind /= "panic"
            /\ program = old_program
            /\ IF from < to /\ to <= Len(program)
               THEN /\ call_ret.kind = "Ok"
                    /\ call_ret.insts = SubSeq(program, from + 1, to)
               ELSE /\ call_ret.kind = "Err"
                    /\ call_ret.err = "Invalid from or to argument"

\* C17: deserializing a ProgramInput from a payload that does not parse
\* under all() (a length that is not a multiple of 4, or a word matching no
\* template) yields a deserialization error: it never aborts the process
\* and never yields a program.
C17_DeserializeRejects ==
    (io = "deserialize" /\ ~parse_instructions(data, all).ok) =>
        /\ ~loaded.panic
        /\ loaded.insts = <<>>

\* C18: name stability.  generate_name depends on the program alone, not
\* on the index and not on earlier calls: every call on the same program
\* returns the same name, and the name is "size:" followed by the decimal
\* number of instructions, "-hash:" and exactly 16 lowercase hex digits,
\* the hash of the assembled bytes under the fixed seeds.
C18_NameStability ==
    io = "generate_name" =>
        /\ \A i, j \in 1..Len(call_ret) : call_ret[i] = call_ret[j]
        /\ \A i \in 1..Len(call_ret) :
              LET name == call_ret[i]
                  size == format_decimal(Len(program))
                  hash == format_016x(hasher_finish(hasher_write(
                              build_hasher(0, 0, 0, 0),
                              assemble_instructions(program))))
              IN  /\ Len(name) = 5 + Len(size) + 6 + 16
                  /\ SubSeq(name, 1, 5) = <<"s", "i", "z", "e", ":">>
                  /\ SubSeq(name, 6, 5 + Len(size)) = size
                  /\ SubSeq(name, 6 + Len(size), 11 + Len(size))
                        = <<"-", "h", "a", "s", "h", ":">>
                  /\ SubSeq(name, 12 + Len(size), Len(name)) = hash
                  /\ \A d \in (12 + Len(size))..Len(name) :
                        name[d] \in Range(HexDigits)

\* generate_name was called twice with different indices on a program of
\* two instructions, and the hash is not all zeros.
C18_Witness ==
    /\ io = "generate_name"
    /\ Len(call_ret) = 2
    /\ call_args[1] /= call_args[2]
    /\ Len(program) = 2
    /\ call_ret[1] = call_ret[2]
    /\ \E d \in 1..Len(call_ret[1]) :
          call_ret[1][d] \in {"a", "b", "c", "d", "e", "f"}

\* C19: generate_argument returns an Argument of the requested spec whose
\* value is below 2^L, whatever was forwarded through forward_args and
\* whatever the rng draws.
C19_GeneratedInRange ==
    io = "generate_argument" =>
        /\ call_ret.spec = call_args[1]
        /\ lt(call_ret.value, max_value(call_args[1]))

\* C20: parse_arg rejects with "Too large value" every operand value that
\* does not fit the operand's L bits: an argument it returns has a value
\* below 2^L and encodes no bit outside the operand's field, and a value
\* of 2^L or more written for an operand of the template is that error.
C20_TooLargeRejected ==
    io = "parse_arg" =>
        LET template == call_args[1]
            arg_str == call_args[2]
            ops == operands(template)
        IN  /\ call_ret.ok =>
                LET arg == call_ret.value
                    field == {SpecOf(arg.spec).offset + b :
                                 b \in 0..(length(arg.spec) - 1)}
                IN  /\ lt(arg.value, max_value(arg.spec))
                    /\ Argument_encode(arg) \subseteq field
            /\ \A i \in 1..Len(ops), v \in EdgeValues :
                  (/\ ~lt(Bits(v), max_value(ops[i]))
                   /\ arg_str \in {name_chars[ops[i]] \o <<"=">> \o w :
                                      w \in {format_decimal(v),
                                             <<"0", "x">> \o format_x(v)}})
                  => (~call_ret.ok /\ call_ret.err = "Too large value")

\* C21: every mutation terminates.  A call that reached the retry loop of
\* Replace or of ReplaceArg (1-bit operands included) returns Mutated or
\* Skipped in the end, under a fair rng; every other call returns at once.
C21_MutationTerminates ==
    (io = "loop") ~> (io = "returned" /\ result \in {"Mutated", "Skipped"})

\* ReplaceArg returned Mutated on a 1-bit operand that was set, after a
\* round that drew the old value.
C21_Witness ==
    /\ io = "returned" /\ result = "Mutated" /\ mutation = "ReplaceArg"
    /\ steps >= 1
    /\ length(call_args[2].spec) = 1 /\ call_args[2].value = Bits(1)

\* C22: set_arg(new) on a well-formed instruction, new.spec an operand of
\* the template, drops the argument of new.spec and appends new: the
\* result has exactly one argument per operand of the template, the one of
\* new.spec has new's value and every other operand keeps its value.
C22_SetArg ==
    (call_args /= <<>> /\ io = "none"
        /\ Instruction_new_asserts(call_args[1])) =>
        LET old == call_args[1]
            new_arg == call_args[2]
            ops == operands(inst.template)
            ArgsOf(i, spec) ==
                {k \in 1..Len(i.arguments) : i.arguments[k].spec = spec}
        IN  /\ inst.template = old.template
            /\ Len(inst.arguments) = Len(ops)
            /\ inst.arguments[Len(inst.arguments)] = new_arg
            /\ \A o \in 1..Len(ops) :
                  /\ Cardinality(ArgsOf(inst, ops[o])) = 1
                  /\ \A k \in ArgsOf(inst, ops[o]) :
                        inst.arguments[k].value =
                            IF ops[o] = new_arg.spec THEN new_arg.value
                            ELSE old.arguments[o].value
            /\ inst.arguments =
                  Append(SelectSeq(old.arguments,
                                   LAMBDA a : a.spec /= new_arg.spec),
                         new_arg)

\* set_arg gave the first of three operands a new value and moved it to the
\* end.
C22_Witness ==
    /\ call_args /= <<>> /\ io = "none"
    /\ Instruction_new_asserts(call_args[1])
    /\ Len(inst.arguments) = 3
    /\ call_args[2].spec = operands(inst.template)[1]
    /\ call_args[2].value /= call_args[1].arguments[1].value
    /\ inst.arguments[3] = call_args[2]

\* The arguments of an instruction put in the declared order of the
\* template's operands.
InDeclaredOrder(i) ==
    Instruction_new(i.template,
        [o \in 1..Len(operands(i.template)) |->
            i.arguments[CHOOSE k \in 1..Len(i.arguments) :
                            i.arguments[k].spec = operands(i.template)[o]]])

\* C30: encode does not depend on the order of the argument list.  An
\* instruction with one in-range argument per operand, its arguments in any
\* order set_arg left them in, encodes to the word of the same arguments in
\* declared order; every operand's field holds its argument's value and the
\* fixed bits are the template's match pattern under its mask.
C30_EncodeOrderIndependent ==
    io = "encode" =>
        LET template == TemplateOf(inst.template)
        IN  /\ encoded = Instruction_encode(InDeclaredOrder(inst))
            /\ encoded \cap template.mask_pattern = template.match_pattern
            /\ \A k \in 1..Len(inst.arguments) :
                  extract(inst.arguments[k].spec, encoded) = inst.arguments[k]

\* An instruction was encoded after two set_arg calls left no argument at
\* the place of its operand, the arguments' values being different.
C30_Witness ==
    /\ io = "encode" /\ steps = 2
    /\ Len(inst.arguments) = 3
    /\ \A k \in 1..3 : inst.arguments[k].spec /= operands(inst.template)[k]
    /\ \A k, l \in 1..3 :
          k /= l => inst.arguments[k].value /= inst.arguments[l].value

\* C23: parse_instructions decodes each word with the first template of
\* the list passed in that matches it; decode returns Some exactly when
\* matches holds, and the decoded arguments are the extractions of the
\* template's operands in declared order.
C23_FirstMatch ==
    (io = "parse_with" /\ Len(data) % 4 = 0) =>
        LET insts == call_args[1]
            words == WordsOf(data)
            Matching(w) ==
                {k \in 1..Len(insts) : matches(insts[k], words[w])}
            First(w) == CHOOSE k \in Matching(w) : \A j \in Matching(w) : k <= j
            Parsed == {w \in 1..Len(words) :
                          \A v \in 1..w : Matching(v) /= {}}
        IN  /\ \A w \in 1..Len(words), k \in 1..Len(insts) :
                  (decode(insts[k], words[w]) /= None)
                      <=> matches(insts[k], words[w])
            /\ parsed.ok <=> Parsed = 1..Len(words)
            /\ parsed.ok =>
                  /\ Len(parsed.value) = Len(words)
                  /\ \A w \in 1..Len(words) :
                        LET template == insts[First(w)]
                            ops == operands(template)
                        IN  /\ parsed.value[w].template = template
                            /\ parsed.value[w].arguments =
                                  [o \in 1..Len(ops) |->
                                      extract(ops[o], words[w])]

\* A word that three templates of the list match was parsed, and the list
\* does not start with a template that matches it.
C23_Witness ==
    /\ io = "parse_with" /\ parsed.ok /\ Len(data) = 8
    /\ LET insts == call_args[1]
           Matching == {k \in 1..Len(insts) :
                           matches(insts[k], WordsOf(data)[2])}
       IN  /\ Cardinality(Matching) >= 2
           /\ 1 \notin Matching
           /\ \E k \in Matching :
                 parsed.value[2].template = insts[k]

\* C24: extract is total and returns (word >> O) & (2^L - 1) for every
\* word and every operand spec with 1 <= L <= 32, and neither the mask
\* 2^L - 1 nor max_value = 2^L overflows 32-bit unsigned arithmetic.
C24_ExtractTotal ==
    io = "extract" =>
        LET spec == SpecOf(call_args[1])
            word == call_args[2]
        IN  /\ ~call_ret.panic
            /\ ~call_ret.overflow
            /\ call_ret.arg =
                  Some(Argument_new(spec.name,
                           Shr(word, spec.offset) \cap 0..(spec.length - 1)))
            /\ call_ret.max_value[1] = {spec.length}

\* C25: the value generate_argument returns is the value of a known
\* argument whose operand has the bit length of the requested one (whatever
\* its name), a power of two 1 << k with k < L, or a value below 2^L; with
\* no known argument of that bit length only the last two; and every value
\* below 2^L, like every such known value, is a possible output.
C25_GeneratedValues ==
    io = "generate_argument" =>
        LET arg == call_args[1]
            known == {generator.known_args[i].value :
                        i \in {j \in 1..Len(generator.known_args) :
                                  length(generator.known_args[j].spec)
                                      = length(arg)}}
            powers == {{k} : k \in 0..(length(arg) - 1)}
            uniform == SUBSET (0..(length(arg) - 1))
            possible == {generate_argument(generator, rand, arg).value.value :
                            rand \in GenRngs}
        IN  /\ call_ret.spec = arg
            /\ call_ret.value \in known \cup powers \cup uniform
            /\ known = {} => call_ret.value \in powers \cup uniform
            /\ possible = known \cup powers \cup uniform

\* A 5-bit operand was generated with the value of a known argument of
\* another 5-bit operand, a value no draw below 2^5 gives.
C25_Witness ==
    /\ io = "generate_argument"
    /\ call_args[1] = "rs1"
    /\ call_ret.value = Bits(35)
    /\ \A i \in 1..Len(generator.known_args) :
          generator.known_args[i].spec = "rd"

\* C26: SwapTwo on a non-empty program returns Mutated, keeps the length,
\* and leaves the old program with the instructions at two positions
\* (possibly the same one) exchanged and every other position unchanged.
C26_SwapTwoExchanges ==
    (mutation = "SwapTwo" /\ old_program /= <<>>) =>
        /\ result = "Mutated"
        /\ Len(program) = Len(old_program)
        /\ \E i \in 1..Len(old_program), j \in 1..Len(old_program) :
              /\ program[i] = old_program[j]
              /\ program[j] = old_program[i]
              /\ \A k \in 1..Len(old_program) \ {i, j} :
                    program[k] = old_program[k]

\* SwapTwo exchanged two different instructions of a program.
C26_Witness ==
    /\ mutation = "SwapTwo" /\ result = "Mutated"
    /\ Len(old_program) = 2
    /\ old_program[1] /= old_program[2]
    /\ program = <<old_program[2], old_program[1]>>

\* C27: under the reducing mutators (Remove, Remove, ReplaceWithNop) a
\* Mutated step deletes one instruction or replaces one instruction by
\* addi rd=0 rs1=0 imm12=0 and leaves the others unchanged; the length of
\* the program never increases; on an empty program the step is Skipped.
C27_ReducingMutations ==
    steps > 0 =>
        /\ mutation \in {"Remove", "ReplaceWithNop"}
        /\ result = "Mutated" =>
              \/ \E k \in 1..Len(old_program) :
                    program = SubSeq(old_program, 1, k - 1)
                              \o SubSeq(old_program, k + 1, Len(old_program))
              \/ \E k \in 1..Len(old_program) :
                    /\ Len(program) = Len(old_program)
                    /\ program[k] =
                          Instruction_new("addi",
                              <<Argument_new("rd", Bits(0)),
                                Argument_new("rs1", Bits(0)),
                                Argument_new("imm12", Bits(0))>>)
                    /\ \A j \in 1..Len(old_program) \ {k} :
                          program[j] = old_program[j]
        /\ Len(program) <= Len(old_program)
        /\ old_program = <<>> => result = "Skipped" /\ program = <<>>

\* Two reducing steps emptied a program of two instructions and the third
\* was skipped.
C27_Witness ==
    /\ steps = 3 /\ mutation = "ReplaceWithNop"
    /\ old_program = <<>> /\ program = <<>> /\ result = "Skipped"

\* C28: parse_inst on a line that names a known mnemonic and gives each
\* operand of its template once, with an in-range value, in any order,
\* returns Ok of an instruction with one argument per operand in the
\* declared order, and does not abort; on a line that repeats an operand or
\* leaves one out it returns an error.
C28_ParseInstAnyOrder ==
    io = "parse_inst" =>
        LET parts == split(trim(split(call_args[1], "#")[1]), " ")
            given == SelectSeq(Tail(parts), LAMBDA part : trim(part) /= <<>>)
            names == [i \in 1..Len(given) |-> split(trim(given[i]), "=")[1]]
            known == {t \in {"addi", "fmv_x_d", "ecall"} :
                        name_chars[t] = parts[1]}
        IN  \A t \in known :
              LET ops == operands(t)
                  Count(op) ==
                      Cardinality({i \in 1..Len(names) :
                                     names[i] = name_chars[op]})
                  of_template ==
                      \A i \in 1..Len(names) :
                          \E k \in 1..Len(ops) : names[i] = name_chars[ops[k]]
              IN  /\ (of_template /\ \A k \in 1..Len(ops) : Count(ops[k]) = 1)
                        => /\ ~call_ret.panic
                           /\ call_ret.ret.ok
                           /\ Instruction_new_asserts(call_ret.ret.value)
                  /\ (of_template /\ \E k \in 1..Len(ops) : Count(ops[k]) /= 1)
                        => ~call_ret.panic /\ ~call_ret.ret.ok

\* C29: over any sequence of perform calls the DummyCalibration stage runs
\* the target at most once for a corpus entry, with or without scheduler
\* metadata in the state.
C29_RunsTargetOnce ==
    \A i \in 1..Len(stage.run_target) : stage.run_target[i] <= 1

====
